---- MODULE Spec2Model ----
(***************************************************************************)
(* Canvas LMS agent backend: the agent orchestrator (backend/app/agent.py),*)
(* the HTTP handlers and the course file tree (backend/app/main.py) and    *)
(* the Canvas client and tools (backend/app/tools/canvas_tools.py).        *)
(*                                                                         *)
(* Python strings are modelled as sequences of one-character strings, so   *)
(* that strip(), lower(), startswith(), "in" and the regular expression    *)
(* of the course-code suffix are computed character by character.          *)
(* None is NoneStr where a string is expected, NoneInt where an integer is.*)
(***************************************************************************)
EXTENDS Integers, Sequences, FiniteSets, TLC

\* None where a str is expected: a sequence no Python string is equal to
NoneStr == <<"None">>
\* None where an int is expected (ids of the platform are positive)
NoneInt == 0 - 1

(***************************************************************************)
(* Python str helpers                                                      *)
(***************************************************************************)
UpperChars == <<"A","B","C","D","E","F","G","H","I","J","K","L","M",
                "N","O","P","Q","R","S","T","U","V","W","X","Y","Z">>
LowerChars == <<"a","b","c","d","e","f","g","h","i","j","k","l","m",
                "n","o","p","q","r","s","t","u","v","w","x","y","z">>
DigitChars == <<"0","1","2","3","4","5","6","7","8","9">>

\* Characters str.strip() removes when called without argument
Whitespace == {" ", "\n", "\t"}

Range(s) == {s[i] : i \in DOMAIN s}

IndexIn(c, s) == CHOOSE i \in DOMAIN s : s[i] = c

\* ord(c) for the characters the model uses (ASCII)
Ord(c) ==
    IF c \in Range(UpperChars) THEN 64 + IndexIn(c, UpperChars)
    ELSE IF c \in Range(LowerChars) THEN 96 + IndexIn(c, LowerChars)
    ELSE IF c \in Range(DigitChars) THEN 47 + IndexIn(c, DigitChars)
    ELSE IF c = " " THEN 32
    ELSE IF c = "\t" THEN 9
    ELSE IF c = "\n" THEN 10
    ELSE IF c = "+" THEN 43
    ELSE IF c = "-" THEN 45
    ELSE IF c = "/" THEN 47
    ELSE 63

\* str.lower(), one character
LowerChar(c) ==
    IF c \in Range(UpperChars) THEN LowerChars[IndexIn(c, UpperChars)] ELSE c

\* str.lower()
Lower(s) == [i \in DOMAIN s |-> LowerChar(s[i])]

IsDigitChar(c) == c \in Range(DigitChars)

\* str.isdigit(): non-empty and every character a digit
IsDigit(s) == Len(s) > 0 /\ \A i \in DOMAIN s : IsDigitChar(s[i])

RECURSIVE LStrip(_)
LStrip(s) ==
    IF s # <<>> /\ Head(s) \in Whitespace THEN LStrip(Tail(s)) ELSE s

RECURSIVE RStrip(_)
RStrip(s) ==
    IF s # <<>> /\ s[Len(s)] \in Whitespace
    THEN RStrip(SubSeq(s, 1, Len(s) - 1))
    ELSE s

\* str.strip()
Strip(s) == RStrip(LStrip(s))

\* str.startswith(prefix)
StartsWith(s, prefix) ==
    Len(prefix) <= Len(s) /\ SubSeq(s, 1, Len(prefix)) = prefix

\* "sub in s"
Contains(s, sub) ==
    \E i \in 0..(Len(s) - Len(sub)) : SubSeq(s, i + 1, i + Len(sub)) = sub

\* Lexicographic "<" of two Python strings
RECURSIVE StrLess(_, _)
StrLess(a, b) ==
    IF b = <<>> THEN FALSE
    ELSE IF a = <<>> THEN TRUE
    ELSE IF Ord(Head(a)) # Ord(Head(b)) THEN Ord(Head(a)) < Ord(Head(b))
    ELSE StrLess(Tail(a), Tail(b))

\* Python truthiness of an Optional[str]
Truthy(v) == v # NoneStr /\ v # <<>>

\* Python truthiness of an Optional[int]
TruthyInt(n) == n # NoneInt /\ n # 0

\* "a or b" on Optional[str]
Or(a, b) == IF Truthy(a) THEN a ELSE b

\* All sequences over S of length at most n
SeqsUpTo(S, n) == UNION {[1..k -> S] : k \in 0..n}

(***************************************************************************)
(* State                                                                   *)
(***************************************************************************)
VARIABLES
    \* ---- agent.py run_agent / main.py chat
    env,          \* os.environ: LLM_API_KEY, LLM_BASE_URL, CANVAS_BASE_URL
    pc,           \* position inside run_agent
    caller,       \* who called run_agent: "direct" or "chat"
    request,      \* the inputs of the current call
    tools,        \* the tool set build_canvas_tools returned
    final_text,   \* run_agent's local final_text
    calls,        \* log of the calls made on the two agent strategies
    outcome,      \* what run_agent did: returned a text or raised
    response      \* the HTTP response of /api/chat

agentVars == <<env, pc, caller, request, tools, final_text, calls, outcome, response>>

(***************************************************************************)
(* agent.py: run_agent, and main.py: chat                                  *)
(***************************************************************************)
\* Longest answer text an agent strategy returns in the model
MaxTextLen == 2

TextChars == {" ", "a"}

\* Texts an agent strategy can end with: empty, whitespace-only, or not blank
Texts == SeqsUpTo(TextChars, MaxTextLen)

\* Values of a configuration item: absent, empty or set
ConfigValues == {NoneStr, <<>>, <<"v">>}

Messages == {<<>>, <<"h", "i">>}

Tokens == {NoneStr, <<>>, <<" ">>, <<"t">>, <<" ", "t">>}

\* The keyword parameters of run_agent
RunAgentParams ==
    {"user_message", "canvas_token", "llm_base_url", "llm_api_key",
     "llm_model", "verbose", "request_id"}

\* run_agent's parameters without a default
RunAgentRequired == {"user_message", "canvas_token"}

\* The keywords chat passes to run_agent
ChatCallKwargs ==
    {"user_message", "canvas_token", "llm_base_url", "llm_api_key",
     "llm_model", "verbose", "request_id", "history"}

\* Python's binding of a keyword call: an unexpected keyword or a missing
\* required parameter raises TypeError before the body runs
BindsOk(kwargs, params, required) ==
    kwargs \subseteq params /\ required \subseteq kwargs

\* _extract_text: the "output" of a dict, else str(o); None gives ""
_extract_text(o) ==
    IF o.is_dict /\ o.has_output
    THEN (IF o.output # NoneStr THEN o.output ELSE <<>>)
    ELSE (IF o.output # NoneStr THEN o.output ELSE <<>>)

\* What AgentExecutor.invoke returns: a dict holding "output"
InvokeOutputs ==
    [is_dict : {TRUE}, has_output : {TRUE}, output : Texts \cup {NoneStr}]

\* NeedsFallback testing for the empty string only
NeedsFallback_no_strip(text) == text = <<>>

\* "if not final_text.strip()"
NeedsFallback(text) == Strip(text) = <<>>

NoOutcome == [kind |-> "none", text |-> <<>>, exc |-> "-"]
Returned(t) == [kind |-> "returned", text |-> t, exc |-> "-"]
Raised(e) == [kind |-> "raised", text |-> <<>>, exc |-> e]

NoResponse == [status |-> 0, answer |-> <<>>]
HttpError(code) == [status |-> code, answer |-> <<>>]

NoRequest ==
    [user_message |-> <<>>, canvas_token |-> <<>>,
     llm_base_url |-> NoneStr, llm_api_key |-> NoneStr]

Call(strategy, op, ts, raised, text) ==
    [strategy |-> strategy, op |-> op, tools |-> ts, raised |-> raised, text |-> text]

\* chat's handling of what run_agent returned (lines 102-107)
ChatAnswer(answer) ==
    IF Strip(answer) # <<>> THEN [status |-> 200, answer |-> answer]
    ELSE HttpError(502)

\* run_agent ends by raising e: the direct caller sees the exception, chat
\* turns it into a 500 (line 110)
RaiseFromRunAgent(e) ==
    /\ pc' = "raised"
    /\ outcome' = Raised(e)
    /\ response' = IF caller' = "chat" THEN HttpError(500) ELSE response

\* run_agent lines 129-177: configuration, tools, the primary agent
RunAgentEnter(who, msg, token, base, key, buildOk) ==
    LET resolved_llm_api_key == Or(key, env.LLM_API_KEY)
        resolved_llm_base_url == Or(base, env.LLM_BASE_URL)
        canvas_base_url == env.CANVAS_BASE_URL
        built == [canvas_token |-> token, canvas_base_url |-> canvas_base_url]
    IN  /\ caller' = who
        /\ request' = [user_message |-> msg, canvas_token |-> token,
                       llm_base_url |-> base, llm_api_key |-> key]
        /\ final_text' = <<>>
        /\ IF ~Truthy(resolved_llm_api_key) \/ ~Truthy(resolved_llm_base_url)
           THEN /\ RaiseFromRunAgent("RuntimeError")
                /\ UNCHANGED <<tools, calls>>
           ELSE IF ~Truthy(canvas_base_url)
           THEN /\ RaiseFromRunAgent("RuntimeError")
                /\ UNCHANGED <<tools, calls>>
           ELSE /\ tools' = built
                /\ calls' = <<Call("primary", "build", built, ~buildOk, <<>>)>>
                /\ IF buildOk
                   THEN /\ pc' = "primary_invoke"
                        /\ UNCHANGED <<outcome, response>>
                   ELSE RaiseFromRunAgent("Exception")

\* run_agent called by a caller that uses its signature
RunAgentDirect ==
    /\ pc = "idle"
    /\ \E msg \in Messages, token \in Tokens \ {NoneStr},
          base \in ConfigValues, key \in ConfigValues, buildOk \in BOOLEAN :
          RunAgentEnter("direct", msg, token, base, key, buildOk)
    /\ UNCHANGED env

\* POST /api/chat, lines 64-101 and 108-112: validation, configuration and
\* the call of run_agent
Chat ==
    /\ pc = "idle"
    /\ \E message \in Messages, req_token \in Tokens,
          hdrBase \in ConfigValues, hdrKey \in ConfigValues, buildOk \in BOOLEAN :
          LET canvas_token == Strip(Or(req_token, <<>>))
              llm_base_override == Or(hdrBase, env.LLM_BASE_URL)
              llm_key_override == Or(hdrKey, env.LLM_API_KEY)
              reject(code) ==
                  /\ response' = HttpError(code)
                  /\ pc' = "responded"
                  /\ caller' = "chat"
                  /\ request' = [user_message |-> message, canvas_token |-> canvas_token,
                                 llm_base_url |-> llm_base_override,
                                 llm_api_key |-> llm_key_override]
                  /\ UNCHANGED <<tools, final_text, calls, outcome>>
          IN  IF ~Truthy(message) THEN reject(400)
              ELSE IF ~Truthy(canvas_token) THEN reject(400)
              ELSE IF ~Truthy(llm_key_override) THEN reject(500)
              ELSE IF ~Truthy(llm_base_override) THEN reject(500)
              ELSE IF ~BindsOk(ChatCallKwargs, RunAgentParams, RunAgentRequired)
                   THEN reject(500)
              ELSE RunAgentEnter("chat", message, canvas_token,
                                 llm_base_override, llm_key_override, buildOk)
    /\ UNCHANGED env

\* line 186-187: agent.invoke and _extract_text, or the exception of line 188
PrimaryInvoke ==
    /\ pc = "primary_invoke"
    /\ \/ \E o \in InvokeOutputs :
            /\ final_text' = _extract_text(o)
            /\ calls' = Append(calls, Call("primary", "invoke", tools, FALSE, _extract_text(o)))
            /\ pc' = "check_empty"
       \/ /\ calls' = Append(calls, Call("primary", "invoke", tools, TRUE, <<>>))
          /\ pc' = "primary_run"
          /\ UNCHANGED final_text
    /\ UNCHANGED <<env, caller, request, tools, outcome, response>>

\* line 192: agent.run inside the except block; its exception is not caught
PrimaryRun ==
    /\ pc = "primary_run"
    /\ \/ \E t \in Texts :
            /\ final_text' = t
            /\ calls' = Append(calls, Call("primary", "run", tools, FALSE, t))
            /\ pc' = "check_empty"
            /\ UNCHANGED <<outcome, response>>
       \/ /\ calls' = Append(calls, Call("primary", "run", tools, TRUE, <<>>))
          /\ UNCHANGED <<final_text, caller>>
          /\ RaiseFromRunAgent("Exception")
    /\ UNCHANGED <<env, caller, request, tools>>

\* lines 195-206: the test for an empty answer and the fallback agent's
\* construction, whose exception line 214 swallows
CheckEmpty ==
    /\ pc = "check_empty"
    /\ IF NeedsFallback(final_text)
       THEN \E buildOk \in BOOLEAN :
               /\ calls' = Append(calls, Call("fallback", "build", tools, ~buildOk, <<>>))
               /\ pc' = IF buildOk THEN "fallback_invoke" ELSE "return"
       ELSE /\ pc' = "return"
            /\ UNCHANGED calls
    /\ UNCHANGED <<env, caller, request, tools, final_text, outcome, response>>

\* lines 207-210: func_agent.invoke
FallbackInvoke ==
    /\ pc = "fallback_invoke"
    /\ \/ \E o \in InvokeOutputs :
            /\ final_text' = _extract_text(o)
            /\ calls' = Append(calls, Call("fallback", "invoke", tools, FALSE, _extract_text(o)))
            /\ pc' = "return"
       \/ /\ calls' = Append(calls, Call("fallback", "invoke", tools, TRUE, <<>>))
          /\ pc' = "fallback_run"
          /\ UNCHANGED final_text
    /\ UNCHANGED <<env, caller, request, tools, outcome, response>>

\* FallbackRun without the outer "except Exception" of line 214
FallbackRun_propagates ==
    /\ pc = "fallback_run"
    /\ \/ \E t \in Texts :
            /\ final_text' = t
            /\ calls' = Append(calls, Call("fallback", "run", tools, FALSE, t))
            /\ pc' = "return"
            /\ UNCHANGED <<outcome, response>>
       \/ /\ calls' = Append(calls, Call("fallback", "run", tools, TRUE, <<>>))
          /\ UNCHANGED <<final_text, caller>>
          /\ RaiseFromRunAgent("Exception")
    /\ UNCHANGED <<env, caller, request, tools>>

\* lines 213-216: func_agent.run; its exception is swallowed by line 214
FallbackRun ==
    /\ pc = "fallback_run"
    /\ \/ \E t \in Texts :
            /\ final_text' = t
            /\ calls' = Append(calls, Call("fallback", "run", tools, FALSE, t))
       \/ /\ calls' = Append(calls, Call("fallback", "run", tools, TRUE, <<>>))
          /\ UNCHANGED final_text
    /\ pc' = "return"
    /\ UNCHANGED <<env, caller, request, tools, outcome, response>>

\* line 220 "return final_text", and for chat lines 102-107
RunAgentReturn ==
    /\ pc = "return"
    /\ pc' = "done"
    /\ outcome' = Returned(final_text)
    /\ response' = IF caller = "chat" THEN ChatAnswer(final_text) ELSE response
    /\ UNCHANGED <<env, caller, request, tools, final_text, calls>>

\* The process environment is fixed at start-up; no request is in progress
AgentInit ==
    /\ env \in [LLM_API_KEY : {NoneStr, <<"v">>}, LLM_BASE_URL : {NoneStr, <<"v">>},
                CANVAS_BASE_URL : {NoneStr, <<"v">>}]
    /\ pc = "idle"
    /\ caller = "none"
    /\ request = NoRequest
    /\ tools = [canvas_token |-> <<>>, canvas_base_url |-> NoneStr]
    /\ final_text = <<>>
    /\ calls = <<>>
    /\ outcome = NoOutcome
    /\ response = NoResponse

\* No chat request and no run_agent call is made
AgentOff ==
    /\ env = [LLM_API_KEY |-> NoneStr, LLM_BASE_URL |-> NoneStr, CANVAS_BASE_URL |-> <<"v">>]
    /\ pc = "off"
    /\ caller = "none"
    /\ request = NoRequest
    /\ tools = [canvas_token |-> <<>>, canvas_base_url |-> NoneStr]
    /\ final_text = <<>>
    /\ calls = <<>>
    /\ outcome = NoOutcome
    /\ response = NoResponse

(***************************************************************************)
(* Claims about run_agent and chat                                         *)
(***************************************************************************)
CallsOf(strategy, ops) ==
    {i \in DOMAIN calls : calls[i].strategy = strategy /\ calls[i].op \in ops}

\* The strategy ended with a text (its invoke, or its retry through run)
HasText(strategy) ==
    \E i \in CallsOf(strategy, {"invoke", "run"}) : ~calls[i].raised

TextOf(strategy) ==
    calls[CHOOSE i \in CallsOf(strategy, {"invoke", "run"}) : ~calls[i].raised].text

\* Both attempts of the strategy raised
BothRaised(strategy) ==
    /\ \E i \in CallsOf(strategy, {"invoke"}) : calls[i].raised
    /\ \E i \in CallsOf(strategy, {"run"}) : calls[i].raised

\* Empty or whitespace-only
Blank(t) == \A i \in DOMAIN t : t[i] \in Whitespace

\* C1: run_agent returns the primary strategy's text unchanged when it is
\* not blank, without touching the fallback; when the primary text is empty
\* or whitespace-only the fallback strategy is built once over the same tool
\* set, each of its entry points is called at most once, and the text the
\* fallback ends with is what run_agent returns.
C1_FallbackOnBlank ==
    pc = "done" =>
        /\ HasText("primary")
        /\ ~Blank(TextOf("primary")) =>
              /\ outcome = Returned(TextOf("primary"))
              /\ CallsOf("fallback", {"build", "invoke", "run"}) = {}
        /\ Blank(TextOf("primary")) =>
              /\ Cardinality(CallsOf("fallback", {"build"})) = 1
              /\ Cardinality(CallsOf("fallback", {"invoke"})) <= 1
              /\ Cardinality(CallsOf("fallback", {"run"})) <= 1
              /\ \A i \in CallsOf("fallback", {"build", "invoke", "run"}) :
                    calls[i].tools = calls[1].tools
              /\ HasText("fallback") => outcome = Returned(TextOf("fallback"))

\* C1 witness: a whitespace-only primary answer replaced by the fallback's
C1_Witness ==
    /\ pc = "done"
    /\ HasText("primary") /\ TextOf("primary") = <<" ">>
    /\ HasText("fallback") /\ TextOf("fallback") = <<"a">>
    /\ outcome = Returned(<<"a">>)

\* C2: a /chat request with a message, a credential and the configuration
\* present is answered 200 with the orchestrator's final text when that text
\* is not blank, and 502 when it is blank.
C2_ChatAnswerOr502 ==
    ( /\ caller = "chat"
      /\ response # NoResponse
      /\ Truthy(request.user_message)
      /\ Truthy(request.canvas_token)
      /\ Truthy(request.llm_api_key)
      /\ Truthy(request.llm_base_url)
      /\ Truthy(env.CANVAS_BASE_URL) )
    => \/ /\ response.status = 200
          /\ response.answer = final_text
          /\ ~Blank(final_text)
          /\ outcome = Returned(final_text)
       \/ /\ response.status = 502
          /\ outcome.kind = "returned"
          /\ Blank(outcome.text)

\* The fallback strategy failed: its construction raised, or its invoke and
\* its run both raised
FallbackFailed ==
    \/ \E i \in CallsOf("fallback", {"build"}) : calls[i].raised
    \/ BothRaised("fallback")

\* C3: when the fallback fails, run_agent raises nothing and returns the
\* text the primary strategy ended with, which is blank.
C3_FallbackFailureSwallowed ==
    FallbackFailed =>
        /\ pc \in {"return", "done"}
        /\ outcome.kind # "raised"
        /\ final_text = TextOf("primary")
        /\ Blank(final_text)
        /\ pc = "done" => outcome = Returned(TextOf("primary"))

\* C3 witness: invoke and run of the fallback raised and run_agent returned
\* the whitespace-only primary text
C3_Witness ==
    /\ pc = "done"
    /\ BothRaised("fallback")
    /\ outcome = Returned(<<" ">>)

\* C4: when the primary strategy's invoke and run both raise, run_agent does
\* not raise and the fallback strategy is run.
C4_PrimaryFailureRunsFallback ==
    (BothRaised("primary") /\ pc \in {"done", "raised"}) =>
        /\ outcome.kind = "returned"
        /\ CallsOf("fallback", {"build"}) # {}

(***************************************************************************)
(* canvas_tools.py: CanvasClient.paginate                                  *)
(*                                                                         *)
(* A URL is a string of one token ("u0", "u1", ...).  A Link header is the *)
(* list of its comma-separated parts, each part the list of its segments   *)
(* between semicolons, each segment a string of tokens: "<", a URL, ">",   *)
(* blanks, and the relation parameter rel="next", rel="current", ...       *)
(***************************************************************************)
VARIABLES
    pg_state,     \* "off", "running" (inside the while loop), "done", "raised"
    url,          \* paginate's local url: the next URL to request
    requested,    \* the URLs requested so far, in order
    served,       \* the responses received so far, in order
    yielded       \* the records yielded so far, in order

pageVars == <<pg_state, url, requested, served, yielded>>

\* Requests one call of paginate makes in the model
MaxPages == 3

\* Longest list page in the model
MaxPageLen == 2

\* self._url(path): the URL of the first page
StartUrl == <<"u0">>

RelNext == "rel=\"next\""

LinkPart(first, target, rel) ==
    << (IF first THEN <<>> ELSE <<" ">>) \o <<"<">> \o target \o <<">">>,
       <<" ", rel>> >>

\* Link headers as the platform writes them: absent, or parts "<url>; rel=..."
LinkHeaders ==
    { <<>>,
      << LinkPart(TRUE, <<"u1">>, RelNext) >>,
      << LinkPart(TRUE, <<"u0">>, "rel=\"current\""),
         LinkPart(FALSE, <<"u2">>, RelNext),
         LinkPart(FALSE, <<"u0">>, "rel=\"first\"") >>,
      << LinkPart(TRUE, <<"u1">>, "rel=\"current\""),
         LinkPart(FALSE, <<"u0">>, "rel=\"first\"") >>,
      << LinkPart(TRUE, <<"u1">>, "rel=\"prev\""),
         LinkPart(FALSE, <<"u2">>, RelNext),
         LinkPart(FALSE, <<"u1">>, RelNext) >> }

\* A JSON body: a list of n records, or one dict
Bodies == [is_list : {TRUE}, n : 0..MaxPageLen] \cup {[is_list |-> FALSE, n |-> 1]}

\* Responses: a success with a body and a Link header, or a failure status
\* with an error object or a list as body, with or without a next link
Responses ==
    [status : {200}, body : Bodies, link : LinkHeaders]
        \cup [status : {404, 500},
              body : {[is_list |-> FALSE, n |-> 1], [is_list |-> TRUE, n |-> MaxPageLen]},
              link : {<<>>, << LinkPart(TRUE, <<"u1">>, RelNext) >>}]

\* The j-th record of the k-th response (0: the dict the response is)
Record(k, j) == <<k, j>>

\* raise_for_status raising for the 5xx statuses only
RaisesForStatus_5xx_only(resp) == resp.status >= 500 /\ resp.status < 600

\* resp.raise_for_status() raises
RaisesForStatus(resp) == resp.status >= 400 /\ resp.status < 600

\* lines 57-63: what one page yields
PageRecords(resp, k) ==
    IF resp.body.is_list
    THEN [j \in 1..resp.body.n |-> Record(k, j)]
    ELSE <<Record(k, 0)>>

\* s[1:-1]
Slice1(s) == IF Len(s) <= 2 THEN <<>> ELSE SubSeq(s, 2, Len(s) - 1)

\* lines 68-72: the first part with at least two segments whose second
\* segment contains rel="next" gives segs[0].strip()[1:-1]
RECURSIVE NextFromParts(_)
NextFromParts(parts) ==
    IF parts = <<>> THEN <<>>
    ELSE LET segs == Head(parts)
         IN  IF Len(segs) >= 2 /\ Contains(segs[2], <<RelNext>>)
             THEN Slice1(Strip(segs[1]))
             ELSE NextFromParts(Tail(parts))

\* NextUrl without the strip() of line 71
NextUrl_no_strip(link) ==
    IF link = <<>> THEN <<>>
    ELSE LET hits == {i \in DOMAIN link : Len(link[i]) >= 2 /\ Contains(link[i][2], <<RelNext>>)}
         IN  IF hits = {} THEN <<>>
             ELSE Slice1(link[CHOOSE i \in hits : \A j \in hits : i <= j][1])

\* lines 65-74: next_url, "" standing for None (both end the while loop)
NextUrl(link) == IF link = <<>> THEN <<>> ELSE NextFromParts(link)

\* One iteration of the while loop (lines 50-74): the request, the status
\* check, the records of the page, the next URL
PaginatePage ==
    /\ pg_state = "running"
    /\ url # <<>>
    /\ Len(requested) < MaxPages
    /\ \E resp \in Responses :
          /\ requested' = Append(requested, url)
          /\ served' = Append(served, resp)
          /\ IF RaisesForStatus(resp)
             THEN /\ pg_state' = "raised"
                  /\ UNCHANGED <<url, yielded>>
             ELSE /\ yielded' = yielded \o PageRecords(resp, Len(served) + 1)
                  /\ url' = NextUrl(resp.link)
                  /\ UNCHANGED pg_state

\* line 50: "while url" fails, the generator is exhausted
PaginateEnd ==
    /\ pg_state = "running"
    /\ url = <<>>
    /\ pg_state' = "done"
    /\ UNCHANGED <<url, requested, served, yielded>>

\* paginate(path) was called: lines 47-49
PaginateInit ==
    /\ pg_state = "running"
    /\ url = StartUrl
    /\ requested = <<>>
    /\ served = <<>>
    /\ yielded = <<>>

PaginateOff ==
    /\ pg_state = "off"
    /\ url = <<>>
    /\ requested = <<>>
    /\ served = <<>>
    /\ yielded = <<>>

(***************************************************************************)
(* Claims about paginate                                                   *)
(***************************************************************************)
\* The URL of the first rel="next" part of a Link header, <<>> when none
AdvertisedNext(link) ==
    LET nexts == {i \in DOMAIN link : RelNext \in Range(link[i][2])}
    IN  IF nexts = {} THEN <<>>
        ELSE SelectSeq(link[CHOOSE i \in nexts : \A j \in nexts : i <= j][1],
                       LAMBDA t : t \notin {"<", ">", " "})

\* The records of pages 1..k, page after page
RECURSIVE ConcatPages(_)
ConcatPages(k) ==
    IF k = 0 THEN <<>>
    ELSE ConcatPages(k - 1) \o
         (IF served[k].body.is_list
          THEN [j \in 1..served[k].body.n |-> <<k, j>>]
          ELSE << <<k, 0>> >>)

AllServedOk == \A k \in DOMAIN served : served[k].status = 200

\* C5: over successful page responses paginate has yielded exactly the
\* concatenation of the pages' records in page order (the elements of a list
\* page in order, a dict page as one record); the first request is for the
\* start URL and each further request is for the URL of the previous page's
\* rel="next" link; no request follows a page without a next link, and the
\* generator ends only after such a page.
C5_PaginateConcatenation ==
    AllServedOk =>
        /\ Len(requested) = Len(served)
        /\ yielded = ConcatPages(Len(served))
        /\ \A k \in DOMAIN requested :
              requested[k] = IF k = 1 THEN StartUrl ELSE AdvertisedNext(served[k - 1].link)
        /\ \A k \in DOMAIN served :
              k < Len(served) => AdvertisedNext(served[k].link) # <<>>
        /\ pg_state = "done" =>
              /\ served # <<>>
              /\ AdvertisedNext(served[Len(served)].link) = <<>>
        /\ (served # <<>> /\ AdvertisedNext(served[Len(served)].link) = <<>>) =>
              ~ENABLED PaginatePage

\* C5 witness: three pages (a list, a dict, a list) read to the end
C5_Witness ==
    /\ pg_state = "done"
    /\ Len(served) = 3
    /\ AllServedOk
    /\ served[1].body = [is_list |-> TRUE, n |-> 2]
    /\ ~served[2].body.is_list
    /\ served[3].body = [is_list |-> TRUE, n |-> 1]
    /\ requested = <<StartUrl, <<"u2">>, <<"u1">> >>
    /\ yielded = << <<1, 1>>, <<1, 2>>, <<2, 0>>, <<3, 1>> >>

\* The pages that were answered with a status outside 200..299
FailedPages == {k \in DOMAIN served : served[k].status < 200 \/ served[k].status > 299}

\* C20: when a page request gets a non-2xx response, paginate raises at that
\* page: it has yielded exactly the records of the pages before it and
\* nothing of the failing page, and it sends no further request (no retry,
\* no next link followed) and does not end normally.
C20_PaginateRaisesAtFailedPage ==
    \A k \in FailedPages :
        /\ k = Len(served)
        /\ Len(requested) = k
        /\ pg_state = "raised"
        /\ yielded = ConcatPages(k - 1)
        /\ ~ENABLED PaginatePage
        /\ ~ENABLED PaginateEnd

\* C20 witness: two pages were read and the third request is answered 500
\* with a body and a next link
C20_Witness ==
    /\ pg_state = "raised"
    /\ Len(served) = 3
    /\ served[1].status = 200 /\ served[1].body = [is_list |-> TRUE, n |-> 2]
    /\ served[2].status = 200 /\ served[2].body = [is_list |-> TRUE, n |-> 1]
    /\ served[3].status = 500 /\ served[3].body = [is_list |-> TRUE, n |-> 2]
    /\ AdvertisedNext(served[3].link) # <<>>
    /\ yielded = << <<1, 1>>, <<1, 2>>, <<2, 1>> >>

(***************************************************************************)
(* canvas_tools.py: _find_course_ids_by_hint                               *)
(***************************************************************************)
VARIABLES
    courses,      \* the active courses paginate("/courses") yields, in order
    hint_raw,     \* the argument hint_raw
    hint_state,   \* "off", "called", "returned"
    hint_result   \* the list of ids returned

hintVars == <<courses, hint_raw, hint_state, hint_result>>

\* Courses the platform lists in the model
MaxCourses == 2

Course(id, name, course_code, code) ==
    [id |-> id, name |-> name, course_code |-> course_code, code |-> code]

\* Course records of the platform; the one without id is skipped by the code
CourseCatalogue ==
    { Course(11, <<"D", "A", "T", "A", " ", "S", "C", "I">>, <<"S", "D", "S", "C", "5", "0", "0", "3">>, NoneStr),
      Course(12, <<"C", "o", "m", "p", "i", "l", "e", "r", "s">>, <<"C", "O", "M", "P", "5", "0", "0", "3", "X">>, NoneStr),
      Course(13, <<"T", "o", "p", "i", "c", " ", "5", "0", "0", "3">>, <<"M", "A", "T", "H", "1", "0", "1">>, NoneStr),
      Course(14, <<"I", "n", "t", "r", "o">>, NoneStr, <<"s", "d", "s", "c", "5", "0", "0", "3">>),
      Course(15, <<"S", "t", "a", "t", "s">>, <<"C", "S", "5", "0">>, NoneStr),
      Course(16, <<"B", "i", "g">>, <<"X", "1", "2", "3", "4", "5", "6", "7">>, NoneStr),
      Course(17, NoneStr, NoneStr, NoneStr),
      Course(NoneInt, <<"D", "a", "t", "a">>, <<"S", "D", "S", "C", "5", "0", "0", "3">>, NoneStr) }

\* Hints as the callers pass them (stripped), and the empty hint
Hints ==
    { <<>>, <<"5", "0", "0", "3">>, <<"S", "D", "S", "C", "5", "0", "0", "3">>, <<"s", "d", "s", "c", "5", "0", "0", "3">>, <<"d", "a", "t", "a">>, <<"5", "0">>, <<"2", "3", "4", "5", "6", "7">>,
      <<"1", "2", "3", "4", "5", "6", "7">>, <<"1", "3">>, <<"-", "7">>, <<"z", "z", "z">>, <<"0", "0", "3">> }

\* The regular expression \d{3,6}$ of line 172: its bounds
SuffixMin == 3
SuffixMax == 6

\* Number of digits the string ends with
RECURSIVE TrailingDigits(_)
TrailingDigits(code) ==
    IF code # <<>> /\ IsDigitChar(code[Len(code)])
    THEN 1 + TrailingDigits(SubSeq(code, 1, Len(code) - 1))
    ELSE 0

\* The last n characters
LastChars(code, n) == SubSeq(code, Len(code) - n + 1, Len(code))

\* CodeSuffix with the pattern \d{3,6} searched anywhere in the code
CodeSuffix_anywhere(code) ==
    LET starts == {i \in DOMAIN code :
                      /\ i + SuffixMin - 1 <= Len(code)
                      /\ \A j \in i..(i + SuffixMin - 1) : IsDigitChar(code[j])}
    IN  IF starts = {} THEN <<>>
        ELSE LET i == CHOOSE x \in starts : \A y \in starts : x <= y
                 ends == {e \in i..Len(code) :
                             /\ e - i + 1 <= SuffixMax
                             /\ \A j \in i..e : IsDigitChar(code[j])}
             IN  SubSeq(code, i, CHOOSE e \in ends : \A f \in ends : f <= e)

\* lines 169-174: re.search(r"(\d{3,6})$", code), "" when there is no match.
\* The leftmost match ending at the end of the code is its last 6 digits when
\* it ends with more than 6, else all the digits it ends with, if 3 or more.
CodeSuffix(code) ==
    LET n == TrailingDigits(code)
    IN  IF code = <<>> \/ n < SuffixMin THEN <<>>
        ELSE LastChars(code, IF n > SuffixMax THEN SuffixMax ELSE n)

\* The value of a string of decimal digits
RECURSIVE DigitsValue(_)
DigitsValue(d) ==
    IF d = <<>> THEN 0
    ELSE 10 * DigitsValue(SubSeq(d, 1, Len(d) - 1)) + (Ord(d[Len(d)]) - 48)

\* int(hint) does not raise: an optional sign and decimal digits
IntParses(h) ==
    \/ IsDigit(h)
    \/ Len(h) >= 2 /\ h[1] \in {"+", "-"} /\ IsDigit(Tail(h))

\* int(hint)
IntOf(h) ==
    IF IsDigit(h) THEN DigitsValue(h)
    ELSE IF h[1] = "-" THEN 0 - DigitsValue(Tail(h))
    ELSE DigitsValue(Tail(h))

\* lines 162-175: (id, name, course_code, short_suffix) of the courses with an id
RECURSIVE CourseItems(_)
CourseItems(cs) ==
    IF cs = <<>> THEN <<>>
    ELSE LET c == Head(cs)
             name == Or(c.name, <<>>)
             code == Or(Or(c.course_code, c.code), <<>>)
         IN  IF ~TruthyInt(c.id) THEN CourseItems(Tail(cs))
             ELSE << [cid |-> c.id, name |-> name, code |-> code,
                      suffix |-> CodeSuffix(code)] >> \o CourseItems(Tail(cs))

\* [cid for cid, ... in items]
Cids(items) == [i \in DOMAIN items |-> items[i].cid]

\* _find_course_ids_by_hint with the name rule tried before the suffix rule
_find_course_ids_by_hint_name_first(cs, raw) ==
    IF raw = <<>> THEN <<>>
    ELSE
    LET hint == Strip(raw)
        lowered == Lower(hint)
        items == CourseItems(cs)
        exact == Cids(SelectSeq(items, LAMBDA it : it.code # <<>> /\ Lower(it.code) = lowered))
        tail == Cids(SelectSeq(items, LAMBDA it : it.suffix # <<>> /\ it.suffix = hint))
        name_hits == Cids(SelectSeq(items, LAMBDA it : Contains(Lower(it.name), lowered)))
    IN  IF exact # <<>> THEN exact
        ELSE IF name_hits # <<>> THEN name_hits
        ELSE IF IsDigit(hint) /\ tail # <<>> THEN tail
        ELSE IF IntParses(hint) THEN <<IntOf(hint)>>
        ELSE <<>>

\* lines 152-198
_find_course_ids_by_hint(cs, raw) ==
    IF raw = <<>> THEN <<>>
    ELSE
    LET hint == Strip(raw)
        lowered == Lower(hint)
        items == CourseItems(cs)
        exact == Cids(SelectSeq(items, LAMBDA it : it.code # <<>> /\ Lower(it.code) = lowered))
        tail == Cids(SelectSeq(items, LAMBDA it : it.suffix # <<>> /\ it.suffix = hint))
        name_hits == Cids(SelectSeq(items, LAMBDA it : Contains(Lower(it.name), lowered)))
    IN  IF exact # <<>> THEN exact
        ELSE IF IsDigit(hint) /\ tail # <<>> THEN tail
        ELSE IF name_hits # <<>> THEN name_hits
        ELSE IF IntParses(hint) THEN <<IntOf(hint)>>
        ELSE <<>>

\* One call of _find_course_ids_by_hint(client, hint_raw)
FindCourseIdsByHint ==
    /\ hint_state = "called"
    /\ hint_result' = _find_course_ids_by_hint(courses, hint_raw)
    /\ hint_state' = "returned"
    /\ UNCHANGED <<courses, hint_raw>>

HintInit ==
    /\ courses \in SeqsUpTo(CourseCatalogue, MaxCourses)
    /\ hint_raw \in Hints
    /\ hint_state = "called"
    /\ hint_result = <<>>

HintOff ==
    /\ courses = <<>>
    /\ hint_raw = <<>>
    /\ hint_state = "off"
    /\ hint_result = <<>>

(***************************************************************************)
(* Claims about _find_course_ids_by_hint                                   *)
(***************************************************************************)
EndsWith(s, t) == Len(t) <= Len(s) /\ SubSeq(s, Len(s) - Len(t) + 1, Len(s)) = t

\* The character before the last n characters of s is not a digit
NoDigitBefore(s, n) == Len(s) = n \/ ~IsDigitChar(s[Len(s) - n])

\* The course's code: course_code, else code, else empty
CodeOfCourse(c) ==
    IF Truthy(c.course_code) THEN c.course_code
    ELSE IF Truthy(c.code) THEN c.code ELSE <<>>

NameOfCourse(c) == IF Truthy(c.name) THEN c.name ELSE <<>>

\* Rule 1: the course code is the hint, ignoring case
CodeIsHint(c, h) == Lower(CodeOfCourse(c)) = Lower(h)

\* Rule 2 as the claim words it: the whole run of digits the code ends with
\* is the hint
TrailingNumberIsHint(c, h) ==
    /\ IsDigit(h)
    /\ EndsWith(CodeOfCourse(c), h)
    /\ NoDigitBefore(CodeOfCourse(c), Len(h))

\* Rule 2 as the code has it: the hint has 3 to 6 digits, the code ends with
\* them, and they are the whole run of digits the code ends with or its last 6
Suffix3To6IsHint(c, h) ==
    /\ IsDigit(h)
    /\ Len(h) >= 3 /\ Len(h) <= 6
    /\ EndsWith(CodeOfCourse(c), h)
    /\ (Len(h) = 6 \/ NoDigitBefore(CodeOfCourse(c), Len(h)))

\* Rule 3: the hint is a substring of the course name, ignoring case
NameHasHint(c, h) == Contains(Lower(NameOfCourse(c)), Lower(h))

\* The ids of the active courses (those with an id) for which rule holds, in
\* the order the platform lists the courses
IdsByRule(rule(_, _)) ==
    LET hit == SelectSeq(courses, LAMBDA c : c.id # NoneInt /\ c.id # 0 /\ rule(c, hint_raw))
    IN  [i \in DOMAIN hit |-> hit[i].id]

\* The matches of the first rule that matches, rule 2 being suffixRule
FirstMatchingRule(suffixRule(_, _)) ==
    IF hint_raw = <<>> THEN <<>>
    ELSE IF IdsByRule(CodeIsHint) # <<>> THEN IdsByRule(CodeIsHint)
    ELSE IF IsDigit(hint_raw) /\ IdsByRule(suffixRule) # <<>> THEN IdsByRule(suffixRule)
    ELSE IF IdsByRule(NameHasHint) # <<>> THEN IdsByRule(NameHasHint)
    ELSE IF IntParses(hint_raw) THEN <<IntOf(hint_raw)>>
    ELSE <<>>

\* C6 as stated: the result is the matches of the first matching rule among
\* (1) code equal to the hint ignoring case, (2) for a numeric hint the
\* trailing numeric suffix of the code equal to the hint, (3) hint contained
\* in the name ignoring case, (4) the hint as a literal id when it parses as
\* an integer; never a mix of rules.
C6_AsStated ==
    hint_state = "returned" => hint_result = FirstMatchingRule(TrailingNumberIsHint)

\* C6 amended: the same priority order, rule 2 comparing the hint with the
\* last 3 to 6 digits of the run of digits the code ends with (a code ending
\* with fewer than 3 digits has no suffix; of more than 6 the last 6 count).
C6_FirstMatchingRule ==
    hint_state = "returned" => hint_result = FirstMatchingRule(Suffix3To6IsHint)

\* C6 witness: the suffix rule answers although the name rule matches
\* another course: the two are not mixed
C6_Witness ==
    /\ hint_state = "returned"
    /\ hint_raw = <<"5", "0", "0", "3">>
    /\ Len(courses) = 2
    /\ courses[1].id = 13 /\ courses[2].id = 11
    /\ hint_result = <<11>>

\* The two courses of the example (ids 11 and 12), in either order
SdscAndComp ==
    /\ Len(courses) = 2
    /\ {courses[1].id, courses[2].id} = {11, 12}
    /\ {courses[1].course_code, courses[2].course_code} = {<<"S", "D", "S", "C", "5", "0", "0", "3">>, <<"C", "O", "M", "P", "5", "0", "0", "3", "X">>}

\* C7 as stated: hint "5003" against the codes SDSC5003 and COMP5003X returns
\* the ids of both courses, and not the literal id 5003.
C7_AsStated ==
    (hint_state = "returned" /\ hint_raw = <<"5", "0", "0", "3">> /\ SdscAndComp) =>
        /\ {hint_result[i] : i \in DOMAIN hint_result} = {11, 12}
        /\ Len(hint_result) = 2

\* C7 amended: hint "5003" against the codes SDSC5003 and COMP5003X returns
\* the id of the SDSC5003 course alone, through the numeric-suffix rule
\* (COMP5003X does not end with digits), and not the literal id 5003.
C7_OnlyTrailingSuffix ==
    (hint_state = "returned" /\ hint_raw = <<"5", "0", "0", "3">> /\ SdscAndComp) =>
        /\ hint_result = <<11>>
        /\ hint_result = IdsByRule(Suffix3To6IsHint)
        /\ IdsByRule(CodeIsHint) = <<>>

\* C7 witness: the example's call has returned
C7_Witness ==
    /\ hint_state = "returned"
    /\ hint_raw = <<"5", "0", "0", "3">>
    /\ SdscAndComp
    /\ courses[1].id = 11 /\ courses[2].id = 12
    /\ hint_result = <<11>>

(***************************************************************************)
(* main.py: _build_course_file_tree                                        *)
(*                                                                         *)
(* The fields size, content_type and updated_at of a file are copied       *)
(* through by _map_file and are left out.                                  *)
(***************************************************************************)
VARIABLES
    folders,      \* list(client.paginate("/courses/{id}/folders"))
    files,        \* list(client.paginate("/courses/{id}/files"))
    tree_state,   \* "off", "called", "returned"
    tree          \* the value of the "root" key of the dict returned

treeVars == <<folders, files, tree_state, tree>>

\* Folders and files the platform lists for the course in the model
MaxFolders == 3
MaxFiles == 2

\* The course_id argument
RequestedCourse == 5

Folder(id, name, full_name, parent, ctype, cid, locked) ==
    [id |-> id, name |-> name, full_name |-> full_name, parent_folder_id |-> parent,
     context_type |-> ctype, context_id |-> cid, locked |-> locked]

\* Folder records of the platform.  Ids are unique in a listing.
FolderCatalogue ==
    { Folder(1, <<"C", "o", "u", "r", "s", "e", " ", "F", "i", "l", "e", "s">>, NoneStr, NoneInt, <<"c", "o", "u", "r", "s", "e">>, 5, FALSE),
      Folder(1, <<"c", "o", "u", "r", "s", "e", " ", "f", "i", "l", "e", "s">>, <<"c", "o", "u", "r", "s", "e", " ", "f", "i", "l", "e", "s">>, NoneInt, <<"C", "o", "u", "r", "s", "e">>, 5, FALSE),
      Folder(1, <<"Z", "e", "t", "a">>, <<"z", "e", "t", "a">>, NoneInt, <<"u", "s", "e", "r">>, 5, FALSE),
      Folder(2, <<"M", "i", "s", "c">>, NoneStr, NoneInt, <<"c", "o", "u", "r", "s", "e">>, 5, FALSE),
      Folder(2, <<"A", "l", "p", "h", "a">>, <<"C", "o", "u", "r", "s", "e", " ", "F", "i", "l", "e", "s">>, NoneInt, <<"c", "o", "u", "r", "s", "e">>, 5, TRUE),
      Folder(2, <<"m", "i", "s", "c">>, <<"c", "o", "u", "r", "s", "e", " ", "f", "i", "l", "e", "s", "/", "m", "i", "s", "c">>, 1, <<"c", "o", "u", "r", "s", "e">>, 5, FALSE),
      Folder(3, <<"a", "l", "p", "h", "a">>, <<"a", "l", "p", "h", "a">>, NoneInt, <<"c", "o", "u", "r", "s", "e">>, 6, FALSE),
      Folder(3, <<"a", "l", "p", "h", "a">>, <<"a", "l", "p", "h", "a">>, NoneInt, <<"c", "o", "u", "r", "s", "e">>, 5, FALSE),
      Folder(3, <<"B", "e", "t", "a">>, <<"c", "o", "u", "r", "s", "e", " ", "f", "i", "l", "e", "s", "/", "m", "i", "s", "c", "/", "B", "e", "t", "a">>, 2, <<"c", "o", "u", "r", "s", "e">>, 5, FALSE),
      Folder(3, <<"B", "e", "t", "a">>, <<"l", "o", "s", "t", "/", "B", "e", "t", "a">>, 9, <<"c", "o", "u", "r", "s", "e">>, 5, FALSE),
      Folder(4, <<"a", "l", "p", "h", "a">>, <<"c", "o", "u", "r", "s", "e", " ", "f", "i", "l", "e", "s", "/", "a", "l", "p", "h", "a">>, 1, <<"c", "o", "u", "r", "s", "e">>, 5, FALSE),
      Folder(NoneInt, <<"G", "h", "o", "s", "t">>, <<"g", "h", "o", "s", "t">>, NoneInt, <<"c", "o", "u", "r", "s", "e">>, 5, FALSE) }

File(id, display_name, filename, folder_id) ==
    [id |-> id, display_name |-> display_name, filename |-> filename, folder_id |-> folder_id]

FileCatalogue ==
    { File(7, <<"b", ".", "t", "x", "t">>, <<"b", ".", "t", "x", "t">>, 1),
      File(8, <<"A", ".", "t", "x", "t">>, <<"A", ".", "t", "x", "t">>, 1),
      File(9, NoneStr, <<"a", ".", "t", "x", "t">>, 2),
      File(6, <<"o", "r", "p", "h", "a", "n">>, <<"o", "r", "p", "h", "a", "n">>, NoneInt) }

\* Listings without a repeated id
DistinctIds(list) ==
    \A i, j \in DOMAIN list : i # j => list[i].id # list[j].id

\* lines 174-179: the folders with an id, in listing order
WithId(fs) == SelectSeq(fs, LAMBDA f : TruthyInt(f.id))

\* folder_by_id.get(fid, {}): the last record listed with that id
FolderById(fs, fid) ==
    LET at == {i \in DOMAIN fs : fs[i].id = fid}
    IN  fs[CHOOSE i \in at : \A j \in at : j <= i]

\* line 194: str(name).lower(), str(None) being "None"
FolderNameKey(f) == Lower(IF f.name = NoneStr THEN <<"N", "o", "n", "e">> ELSE f.name)

\* FolderKeyLess without the id of the sort key
FolderKeyLess_name_only(a, b, fs) ==
    StrLess(FolderNameKey(FolderById(fs, a)), FolderNameKey(FolderById(fs, b)))

\* "<" on the sort keys (lower-cased name, id) of two folder ids
FolderKeyLess(a, b, fs) ==
    LET ka == FolderNameKey(FolderById(fs, a))
        kb == FolderNameKey(FolderById(fs, b))
    IN  StrLess(ka, kb) \/ (ka = kb /\ a < b)

\* list.sort (stable) of folder ids by that key
RECURSIVE SortFolderIds(_, _)
SortFolderIds(ids, fs) ==
    IF ids = <<>> THEN <<>>
    ELSE LET sorted == SortFolderIds(SubSeq(ids, 1, Len(ids) - 1), fs)
             x == ids[Len(ids)]
             k == Cardinality({i \in DOMAIN sorted : ~FolderKeyLess(x, sorted[i], fs)})
         IN  SubSeq(sorted, 1, k) \o <<x>> \o SubSeq(sorted, k + 1, Len(sorted))

\* children_map.get(pid, []) after lines 174-194: the ids listed with that
\* parent, sorted
ChildrenOf(fs, pid) ==
    LET kids == SelectSeq(WithId(fs), LAMBDA f : f.parent_folder_id = pid)
    IN  SortFolderIds([i \in DOMAIN kids |-> kids[i].id], fs)

\* lines 196-203: _map_file
_map_file(x) ==
    [id |-> x.id, display_name |-> Or(Or(x.display_name, x.filename), <<"u", "n", "n", "a", "m", "e", "d">>)]

\* "<" on the sort keys (lower-cased display name, id) of two mapped files
FileKeyLess(a, b) ==
    \/ StrLess(Lower(a.display_name), Lower(b.display_name))
    \/ Lower(a.display_name) = Lower(b.display_name) /\ a.id < b.id

\* list.sort (stable) of mapped files by that key
RECURSIVE SortFiles(_)
SortFiles(fl) ==
    IF fl = <<>> THEN <<>>
    ELSE LET sorted == SortFiles(SubSeq(fl, 1, Len(fl) - 1))
             x == fl[Len(fl)]
             k == Cardinality({i \in DOMAIN sorted : ~FileKeyLess(x, sorted[i])})
         IN  SubSeq(sorted, 1, k) \o <<x>> \o SubSeq(sorted, k + 1, Len(sorted))

\* FilesOf giving every folder the files of all folders
FilesOf_any_folder(fl, fid) ==
    LET mine == SelectSeq(fl, LAMBDA x : x.folder_id # NoneInt)
    IN  SortFiles([i \in DOMAIN mine |-> _map_file(mine[i])])

\* lines 184-190 and 216-217: the mapped files of one folder, sorted
FilesOf(fl, fid) ==
    LET mine == SelectSeq(fl, LAMBDA x : x.folder_id # NoneInt /\ x.folder_id = fid)
    IN  SortFiles([i \in DOMAIN mine |-> _map_file(mine[i])])

\* lines 205-221: _make_node
RECURSIVE _make_node(_, _, _)
_make_node(fid, fs, fl) ==
    LET f == FolderById(fs, fid)
        kids == ChildrenOf(fs, fid)
    IN  [id |-> fid,
         name |-> Or(f.name, <<>>),
         full_name |-> Or(f.full_name, <<>>),
         locked |-> f.locked,
         folders |-> [i \in DOMAIN kids |-> _make_node(kids[i], fs, fl)],
         files |-> FilesOf(fl, fid)]

\* lines 227-231: the top-level folders of the course context
CourseCands(fs, course_id) ==
    SelectSeq(ChildrenOf(fs, NoneInt),
              LAMBDA fid : /\ Lower(FolderById(fs, fid).context_type) = <<"c", "o", "u", "r", "s", "e">>
                           /\ FolderById(fs, fid).context_id = course_id)

\* line 233: those whose full name starts with "course files"
PreferCands(fs, course_id) ==
    SelectSeq(CourseCands(fs, course_id),
              LAMBDA fid : StartsWith(Lower(Or(FolderById(fs, fid).full_name, <<>>)),
                                      <<"c", "o", "u", "r", "s", "e", " ", "f", "i", "l", "e", "s">>))

\* RootFolderId choosing only among the folders of the course context
RootFolderId_course_only(fs, course_id) ==
    IF PreferCands(fs, course_id) # <<>> THEN PreferCands(fs, course_id)[1]
    ELSE IF CourseCands(fs, course_id) # <<>> THEN CourseCands(fs, course_id)[1]
    ELSE NoneInt

\* RootFolderId without the preference of line 233
RootFolderId_no_prefer(fs, course_id) ==
    IF ChildrenOf(fs, NoneInt) = <<>> THEN NoneInt
    ELSE IF CourseCands(fs, course_id) # <<>> THEN CourseCands(fs, course_id)[1]
    ELSE ChildrenOf(fs, NoneInt)[1]

\* lines 224-234: root_folder_id
RootFolderId(fs, course_id) ==
    IF ChildrenOf(fs, NoneInt) = <<>> THEN NoneInt
    ELSE IF PreferCands(fs, course_id) # <<>> THEN PreferCands(fs, course_id)[1]
    ELSE IF CourseCands(fs, course_id) # <<>> THEN CourseCands(fs, course_id)[1]
    ELSE ChildrenOf(fs, NoneInt)[1]

\* lines 236-251: the root of the tree returned
_build_course_file_tree(fs, fl, course_id) ==
    LET root_folder_id == RootFolderId(fs, course_id)
        root_candidates == ChildrenOf(fs, NoneInt)
    IN  IF root_folder_id # NoneInt
        THEN _make_node(root_folder_id, fs, fl)
        ELSE [id |-> NoneInt,
              name |-> <<"C", "o", "u", "r", "s", "e", " ", "F", "i", "l", "e", "s">>,
              full_name |-> <<"c", "o", "u", "r", "s", "e", " ", "f", "i", "l", "e", "s">>,
              locked |-> FALSE,
              folders |-> [i \in DOMAIN root_candidates |->
                              _make_node(root_candidates[i], fs, fl)],
              files |-> <<>>]

\* One call of _build_course_file_tree(client, course_id)
BuildCourseFileTree ==
    /\ tree_state = "called"
    /\ tree' = _build_course_file_tree(folders, files, RequestedCourse)
    /\ tree_state' = "returned"
    /\ UNCHANGED <<folders, files>>

NoTree ==
    [id |-> NoneInt, name |-> <<>>, full_name |-> <<>>, locked |-> FALSE,
     folders |-> <<>>, files |-> <<>>]

TreeInit ==
    /\ folders \in {fs \in SeqsUpTo(FolderCatalogue, MaxFolders) : DistinctIds(fs)}
    /\ files \in {fl \in SeqsUpTo(FileCatalogue, MaxFiles) : DistinctIds(fl)}
    /\ tree_state = "called"
    /\ tree = NoTree

TreeOff ==
    /\ folders = <<>>
    /\ files = <<>>
    /\ tree_state = "off"
    /\ tree = NoTree

(***************************************************************************)
(* Claims about the root of the course file tree                           *)
(***************************************************************************)
\* Positions in the listing of the top-level folders (parent_folder_id null)
TopLevel ==
    {i \in DOMAIN folders : folders[i].id # NoneInt /\ folders[i].parent_folder_id = NoneInt}

\* ... of those with context type "course" and the requested course's id
TopOfCourse ==
    {i \in TopLevel : /\ Lower(folders[i].context_type) = <<"c", "o", "u", "r", "s", "e">>
                      /\ folders[i].context_id = RequestedCourse}

FullNameOf(f) == IF f.full_name = NoneStr THEN <<>> ELSE f.full_name

\* ... of those whose full name starts with "course files" ignoring case
TopPreferred ==
    {i \in TopOfCourse :
        LET fn == Lower(FullNameOf(folders[i]))
        IN  Len(fn) >= 12 /\ SubSeq(fn, 1, 12) = <<"c", "o", "u", "r", "s", "e", " ", "f", "i", "l", "e", "s">>}

IdsAt(S) == {folders[i].id : i \in S}

\* Folder i comes before folder j in (lower-cased name, id) order
BeforeByNameThenId(i, j) ==
    LET ni == Lower(folders[i].name)
        nj == Lower(folders[j].name)
    IN  StrLess(ni, nj) \/ (ni = nj /\ folders[i].id <= folders[j].id)

\* The example of the claim: two top-level folders of course 5, id 1 named
\* "Course Files" and id 2 named "Misc"
RootExample ==
    /\ Len(folders) = 2
    /\ TopOfCourse = {1, 2}
    /\ \E i, j \in {1, 2} :
          /\ folders[i].id = 1 /\ folders[i].name = <<"C", "o", "u", "r", "s", "e", " ", "F", "i", "l", "e", "s">>
          /\ folders[j].id = 2 /\ folders[j].name = <<"M", "i", "s", "c">>

\* The tiers the claim and the code agree on
RootTiers ==
    /\ TopPreferred # {} => tree.id \in IdsAt(TopPreferred)
    /\ (TopPreferred = {} /\ TopOfCourse # {}) => tree.id \in IdsAt(TopOfCourse)
    /\ RootExample => tree.id = 1

\* C8 as stated: the root is a top-level course-context folder whose full
\* name starts with "course files", otherwise a top-level course-context
\* folder, otherwise the first top-level folder found (listed); in the
\* example the root is folder 1.
C8_AsStated ==
    (tree_state = "returned" /\ TopLevel # {}) =>
        /\ RootTiers
        /\ TopOfCourse = {} =>
              tree.id = folders[CHOOSE i \in TopLevel : \A j \in TopLevel : i <= j].id

\* C8 amended: the same tiers, the last being the top-level folder that
\* comes first in (lower-cased name, id) order, whatever the listing order.
C8_RootSelection ==
    (tree_state = "returned" /\ TopLevel # {}) =>
        /\ RootTiers
        /\ TopOfCourse = {} =>
              tree.id = folders[CHOOSE i \in TopLevel :
                                   \A j \in TopLevel : BeforeByNameThenId(i, j)].id

\* C8 witness: the example, built
C8_Witness ==
    /\ tree_state = "returned"
    /\ RootExample
    /\ folders[1].id = 2
    /\ tree.id = 1
    /\ tree.name = <<"C", "o", "u", "r", "s", "e", " ", "F", "i", "l", "e", "s">>

\* The ids of the child folders of the root
RootChildIds == {tree.folders[i].id : i \in DOMAIN tree.folders}

\* The root is the synthesized one
SynthesizedRoot == tree.id = NoneInt /\ tree.name = <<"C", "o", "u", "r", "s", "e", " ", "F", "i", "l", "e", "s">>

\* C9 as stated: when no top-level folder has the course context the root
\* is synthesized (id null, name "Course Files") and its child folders are
\* all the top-level folders.
C9_AsStated ==
    (tree_state = "returned" /\ TopOfCourse = {}) =>
        /\ SynthesizedRoot
        /\ RootChildIds = IdsAt(TopLevel)
        /\ Len(tree.folders) = Cardinality(TopLevel)

\* C9 amended: the root is synthesized (id null, name "Course Files", no
\* child folder, no file) exactly when the listing has no top-level folder
\* at all; when there are top-level folders and none has the course context
\* the root is one of them.
C9_SynthesizedRoot ==
    tree_state = "returned" =>
        /\ TopLevel = {} =>
              /\ SynthesizedRoot
              /\ tree.folders = <<>>
              /\ tree.files = <<>>
        /\ TopLevel # {} => ~SynthesizedRoot
        /\ (TopLevel # {} /\ TopOfCourse = {}) => tree.id \in IdsAt(TopLevel)

\* C9 witness: folders are listed, none of them top-level, and the root is
\* the synthesized one
C9_Witness ==
    /\ tree_state = "returned"
    /\ folders # <<>>
    /\ \E i \in DOMAIN folders : folders[i].id # NoneInt
    /\ TopLevel = {}
    /\ SynthesizedRoot
    /\ tree.folders = <<>>

(***************************************************************************)
(* canvas_tools.py: get_upcoming_assignments_func                          *)
(*                                                                         *)
(* Instants are seconds on a small scale.  A due_at value is null, a       *)
(* string that is no ISO timestamp, or an ISO timestamp with "Z" or with a *)
(* UTC offset: its wall-clock reading t and its offset off.                *)
(***************************************************************************)
VARIABLES
    listing,      \* the active courses, each with the assignments of its pages
    now_utc,      \* datetime.now(timezone.utc) at line 117
    up_state,     \* "off", "called", "returned"
    up_items,     \* the local list items after line 135
    up_out        \* the text returned: the sentinel, or the lines

upVars == <<listing, now_utc, up_state, up_items, up_out>>

\* Assignments a course lists in the model
MaxAssignments == 2

DueAt(kind, t, off) == [kind |-> kind, t |-> t, off |-> off]

\* due_at values of the platform
DueValues ==
    { DueAt("null", 0, 0), DueAt("bad", 0, 0),
      DueAt("z", 10, 0), DueAt("z", 11, 0), DueAt("offset", 13, 1) }

\* Assignment records: a name (absent for one of them) and a due_at
Assignments ==
    { [name |-> (IF d.kind = "bad" THEN NoneStr ELSE <<"h", "w">>), due_at |-> d] :
        d \in DueValues }

\* Invocation instants
Nows == {10, 11}

\* Seconds strftime("%Y-%m-%d %H:%M") drops
SecondsPerMinute == 60

\* _parse_iso: None for a null, empty or malformed string, else the instant
\* of the timestamp ("Z" read as +00:00); NoneInt stands for None
_parse_iso(ts) ==
    IF ts.kind = "null" THEN NoneInt
    ELSE IF ts.kind = "bad" THEN NoneInt
    ELSE IF ts.kind = "z" THEN ts.t
    ELSE ts.t - ts.off

\* _format_time: the minute of the instant
_format_time(dt) == IF dt = NoneInt THEN NoneInt ELSE dt \div SecondsPerMinute

\* IsUpcoming keeping an assignment due exactly now
IsUpcoming_inclusive(due, now) == ~(due = NoneInt \/ due < now)

\* line 128, negated: the assignment is kept
IsUpcoming(due, now) == ~(due = NoneInt \/ due <= now)

\* line 130: the pair appended to items
UpcomingItem(course_name, a) ==
    [due |-> _parse_iso(a.due_at),
     line |-> [course |-> course_name,
               name |-> (IF a.name = NoneStr THEN <<"u", "n", "n", "a", "m", "e", "d">> ELSE a.name),
               due_text |-> _format_time(_parse_iso(a.due_at))]]

\* lines 126-130 for one course
RECURSIVE CourseUpcoming(_, _, _)
CourseUpcoming(course_name, as, now) ==
    IF as = <<>> THEN <<>>
    ELSE (IF IsUpcoming(_parse_iso(Head(as).due_at), now)
          THEN <<UpcomingItem(course_name, Head(as))>> ELSE <<>>)
         \o CourseUpcoming(course_name, Tail(as), now)

\* lines 121-130 over the courses
RECURSIVE CollectUpcoming(_, _)
CollectUpcoming(cs, now) ==
    IF cs = <<>> THEN <<>>
    ELSE LET course == Head(cs)
             course_name == Or(course.name, <<"u", "n", "k", "n", "o", "w", "n">>)
         IN  (IF ~TruthyInt(course.id) THEN <<>>
              ELSE CourseUpcoming(course_name, course.assignments, now))
             \o CollectUpcoming(Tail(cs), now)

\* line 135: items.sort(key=lambda x: x[0]), a stable sort by due instant
RECURSIVE SortByDue(_)
SortByDue(items) ==
    IF items = <<>> THEN <<>>
    ELSE LET sorted == SortByDue(SubSeq(items, 1, Len(items) - 1))
             x == items[Len(items)]
             k == Cardinality({i \in DOMAIN sorted : sorted[i].due <= x.due})
         IN  SubSeq(sorted, 1, k) \o <<x>> \o SubSeq(sorted, k + 1, Len(sorted))

NoOutput == [nothing_due |-> FALSE, lines |-> <<>>]

\* One call of get_upcoming_assignments_func(client), lines 116-138
GetUpcomingAssignments ==
    /\ up_state = "called"
    /\ LET items == SortByDue(CollectUpcoming(listing, now_utc))
       IN  /\ up_items' = items
           /\ up_out' = IF items = <<>>
                        THEN [nothing_due |-> TRUE, lines |-> <<>>]
                        ELSE [nothing_due |-> FALSE,
                              lines |-> [i \in DOMAIN items |-> items[i].line]]
    /\ up_state' = "returned"
    /\ UNCHANGED <<listing, now_utc>>

\* Two active courses are listed; the first may lack an id, the second a name
UpcomingInit ==
    /\ \E id1 \in {11, NoneInt}, name2 \in {<<"B">>, NoneStr},
          as1 \in SeqsUpTo(Assignments, MaxAssignments),
          as2 \in SeqsUpTo(Assignments, MaxAssignments) :
          listing = << [id |-> id1, name |-> <<"A">>, assignments |-> as1],
                       [id |-> 12, name |-> name2, assignments |-> as2] >>
    /\ now_utc \in Nows
    /\ up_state = "called"
    /\ up_items = <<>>
    /\ up_out = NoOutput

UpcomingOff ==
    /\ listing = <<>>
    /\ now_utc = 0
    /\ up_state = "off"
    /\ up_items = <<>>
    /\ up_out = NoOutput

(***************************************************************************)
(* Claims about get_upcoming_assignments_func                              *)
(***************************************************************************)
\* The due instant of a due_at value that parses
Parses(d) == d.kind \in {"z", "offset"}
InstantOf(d) == IF d.kind = "z" THEN d.t ELSE d.t - d.off

\* The assignments (course position, position in the course) that are due
\* strictly after now, in courses that have an id
Due ==
    {p \in {<<c, j>> : c \in DOMAIN listing, j \in 1..MaxAssignments + 1} :
        /\ p[2] \in DOMAIN listing[p[1]].assignments
        /\ listing[p[1]].id # NoneInt
        /\ Parses(listing[p[1]].assignments[p[2]].due_at)
        /\ InstantOf(listing[p[1]].assignments[p[2]].due_at) > now_utc}

\* What identifies a listed assignment in the output
Shown(p) ==
    [course |-> (IF listing[p[1]].name = NoneStr THEN <<"u", "n", "k", "n", "o", "w", "n">> ELSE listing[p[1]].name),
     due |-> InstantOf(listing[p[1]].assignments[p[2]].due_at)]

ShownItem(i) == [course |-> up_items[i].line.course, due |-> up_items[i].due]

\* C10: the assignments kept are exactly those, over all active courses,
\* whose due instant parses and is strictly later than the invocation
\* instant (due at now: dropped; one second later: kept), each listed once,
\* in non-decreasing order of due instant across courses.
C10_UpcomingFilterAndOrder ==
    up_state = "returned" =>
        /\ Len(up_items) = Cardinality(Due)
        /\ \A x \in {Shown(p) : p \in Due} \cup {ShownItem(i) : i \in DOMAIN up_items} :
              Cardinality({p \in Due : Shown(p) = x})
                  = Cardinality({i \in DOMAIN up_items : ShownItem(i) = x})
        /\ \A i \in DOMAIN up_items : up_items[i].due > now_utc
        /\ \A i, j \in DOMAIN up_items : i < j => up_items[i].due <= up_items[j].due
        /\ up_out.nothing_due = (Due = {})
        /\ Len(up_out.lines) = Len(up_items)
        /\ \A i \in DOMAIN up_items : up_out.lines[i] = up_items[i].line

\* C10 witness: at now = 10 the first course lists assignments due at 10 and
\* at 12, the second one due at 11; the output is the one due at 11 (second
\* course) and then the one due at 12 (first course)
C10_Witness ==
    /\ up_state = "returned"
    /\ now_utc = 10
    /\ listing[1].id = 11
    /\ listing[1].assignments =
          << [name |-> <<"h", "w">>, due_at |-> DueAt("z", 10, 0)],
             [name |-> <<"h", "w">>, due_at |-> DueAt("offset", 13, 1)] >>
    /\ listing[2].name = <<"B">>
    /\ listing[2].assignments = << [name |-> <<"h", "w">>, due_at |-> DueAt("z", 11, 0)] >>
    /\ Len(up_items) = 2
    /\ up_items[1].due = 11 /\ up_items[1].line.course = <<"B">>
    /\ up_items[2].due = 12 /\ up_items[2].line.course = <<"A">>

(***************************************************************************)
(* canvas_tools.py: browse_course_files_wrapper                            *)
(*                                                                         *)
(* The messages of the tool are rendered in English; the directive is the  *)
(* literal text of line 329.                                               *)
(***************************************************************************)
VARIABLES
    b_courses,    \* the active courses paginate("/courses") yields, in order
    b_args,       \* the arguments course_id, course_name, course_hint
    b_state,      \* "off", "called", "returned"
    b_out         \* the string returned

browseVars == <<b_courses, b_args, b_state, b_out>>

\* ids[:10] at line 326
CandidateCap == 10

\* str(i) of an integer
RECURSIVE NatToStr(_)
NatToStr(n) ==
    IF n < 10 THEN <<DigitChars[n + 1]>>
    ELSE NatToStr(n \div 10) \o <<DigitChars[(n % 10) + 1]>>

IntToStr(n) == IF n < 0 THEN <<"-">> \o NatToStr(0 - n) ELSE NatToStr(n)

\* ", ".join(strs)
RECURSIVE Join(_)
Join(strs) ==
    IF strs = <<>> THEN <<>>
    ELSE IF Len(strs) = 1 THEN strs[1]
    ELSE strs[1] \o <<",", " ">> \o Join(Tail(strs))

\* s[:n]
Take(s, n) == SubSeq(s, 1, IF Len(s) < n THEN Len(s) ELSE n)

UiMarker == <<"_", "_", "U", "I", "_", "F", "I", "L", "E", "_", "B", "R", "O", "W", "S", "E", "R", "_", "C", "A", "R", "D", "_", "_">>

\* line 329: the directive of a resolved course id
Directive(resolved_id) == UiMarker \o <<"{", "\"", "c", "o", "u", "r", "s", "e", "I", "d", "\"", ":", " ">> \o IntToStr(resolved_id) \o <<"}", "_", "_">>

\* line 319
NeedArgText == <<"g", "i", "v", "e", " ", "c", "o", "u", "r", "s", "e", "_", "i", "d", " ", "o", "r", " ", "c", "o", "u", "r", "s", "e", "_", "n", "a", "m", "e", "/", "c", "o", "u", "r", "s", "e", "_", "h", "i", "n", "t">>

\* line 322
NotFoundPrefix == <<"n", "o", " ", "m", "a", "t", "c", "h", "i", "n", "g", " ", "c", "o", "u", "r", "s", "e", ":", " ">>

\* line 327
AmbiguousPrefix == <<"s", "e", "v", "e", "r", "a", "l", " ", "c", "o", "u", "r", "s", "e", "s", " ", "m", "a", "t", "c", "h", ";", " ", "g", "i", "v", "e", " ", "t", "h", "e", " ", "c", "o", "u", "r", "s", "e", " ", "i", "d", ".", " ", "C", "a", "n", "d", "i", "d", "a", "t", "e", " ", "i", "d", "s", ":", " ">>

\* line 326 without the cap
Candidates_uncapped(ids) == Join([i \in DOMAIN ids |-> IntToStr(ids[i])])

\* line 326: ", ".join([str(i) for i in ids[:10]])
Candidates(ids) == Join([i \in DOMAIN Take(ids, CandidateCap) |-> IntToStr(ids[i])])

\* lines 307-336: the value returned
browse_course_files_wrapper(cs, course_id, course_name, course_hint) ==
    IF TruthyInt(course_id) THEN Directive(course_id)
    ELSE LET hint == Strip(Or(Or(course_hint, course_name), <<>>))
             ids == _find_course_ids_by_hint(cs, hint)
         IN  IF hint = <<>> THEN NeedArgText
             ELSE IF ids = <<>> THEN NotFoundPrefix \o hint
             ELSE IF Len(ids) > 1 THEN AmbiguousPrefix \o Candidates(ids) \o <<"...">>
             ELSE Directive(ids[1])

\* One call of the tool browse_course_files
BrowseCourseFiles ==
    /\ b_state = "called"
    /\ b_out' = browse_course_files_wrapper(b_courses, b_args.course_id,
                                            b_args.course_name, b_args.course_hint)
    /\ b_state' = "returned"
    /\ UNCHANGED <<b_courses, b_args>>

\* A listing in which more than CandidateCap courses carry the same name
ManyCourses ==
    [i \in 1..(CandidateCap + 2) |-> Course(100 + i, <<"D", "a", "t", "a">>, NoneStr, NoneStr)]

BrowseCatalogue == CourseCatalogue \cup {Course(42, <<"A", "l", "g", "e", "b", "r", "a">>, <<"M", "A", "T", "H", "4", "2">>, NoneStr)}

BrowseArgs ==
    [course_id : {NoneInt, 0, 42},
     course_name : {NoneStr, <<>>, <<" ", "d", "a", "t", "a", " ">>},
     course_hint : {NoneStr, <<" ">>, <<"5", "0", "0", "3">>, <<"S", "D", "S", "C", "5", "0", "0", "3">>, <<"z", "z", "z">>, <<"a", "l", "g">>, <<"7", "7">>}]

BrowseInit ==
    /\ b_courses \in SeqsUpTo(BrowseCatalogue, MaxCourses) \cup {ManyCourses}
    /\ b_args \in BrowseArgs
    /\ b_state = "called"
    /\ b_out = <<>>

BrowseOff ==
    /\ b_courses = <<>>
    /\ b_args = [course_id |-> NoneInt, course_name |-> NoneStr, course_hint |-> NoneStr]
    /\ b_state = "off"
    /\ b_out = <<>>

(***************************************************************************)
(* Claims about browse_course_files                                        *)
(***************************************************************************)
\* The course reference given when there is no course id: the hint, else the
\* name, without surrounding blanks
GivenHint ==
    Strip(IF Truthy(b_args.course_hint) THEN b_args.course_hint
          ELSE IF Truthy(b_args.course_name) THEN b_args.course_name ELSE <<>>)

\* The ids the reference resolves to
ResolvedIds == _find_course_ids_by_hint(b_courses, GivenHint)

\* The number of separators ", " in a string
Commas(s) == Cardinality({i \in DOMAIN s : s[i] = ","})

\* C11: without a course id and with a course reference, the tool returns:
\* for exactly one resolved course, the directive
\* __UI_FILE_BROWSER_CARD__{"courseId": <id>}__ of that id; for none, a
\* not-found message without the marker; for several, a disambiguation
\* message without the marker that lists the first ids, at most 10 of them.
C11_BrowseByMatchCount ==
    (b_state = "returned" /\ ~TruthyInt(b_args.course_id) /\ GivenHint # <<>>) =>
        /\ Len(ResolvedIds) = 1 =>
              /\ b_out = Directive(ResolvedIds[1])
              /\ Contains(b_out, <<"c", "o", "u", "r", "s", "e", "I", "d", "\"", ":", " ">> \o IntToStr(ResolvedIds[1]))
        /\ Len(ResolvedIds) = 0 =>
              /\ StartsWith(b_out, NotFoundPrefix)
              /\ ~Contains(b_out, UiMarker)
        /\ Len(ResolvedIds) > 1 =>
              /\ StartsWith(b_out, AmbiguousPrefix)
              /\ ~Contains(b_out, UiMarker)
              /\ Commas(b_out) < CandidateCap
              /\ \E n \in 2..CandidateCap :
                    /\ n <= Len(ResolvedIds)
                    /\ (n < CandidateCap => n = Len(ResolvedIds))
                    /\ b_out = AmbiguousPrefix
                                 \o Join([i \in 1..n |-> IntToStr(ResolvedIds[i])])
                                 \o <<"...">>

\* C11 witness: twelve courses match the name, ten ids are listed
C11_Witness ==
    /\ b_state = "returned"
    /\ ~TruthyInt(b_args.course_id)
    /\ Len(ResolvedIds) = CandidateCap + 2
    /\ Commas(b_out) = CandidateCap - 1
    /\ Contains(b_out, <<"1", "0", "1", ",", " ", "1", "0", "2">>)
    /\ ~Contains(b_out, <<"1", "1", "1">>)

(***************************************************************************)
(* main.py: tool_test, list_courses, get_course_file_tree, download_file   *)
(*                                                                         *)
(* gw_remote is the list of the requests the handler has sent to the       *)
(* learning platform.  A tool name is a string whose tokens are blanks and *)
(* one word.  Waits are in tenths of a second.                             *)
(***************************************************************************)
VARIABLES
    gw_env,       \* os.getenv: CANVAS_BASE_URL
    gw_pc,        \* "off", "idle", "meta", "public_url", "bytes", "responded"
    gw_req,       \* the request: endpoint, credential, tool name
    gw_remote,    \* requests sent upstream, in order
    gw_resp,      \* the HTTP status answered, 0 before the answer
    attempt,      \* download_file: the loop variable of line 314
    last_err,     \* download_file: "None", "RequestException", "Exception"
    meta,         \* download_file: the metadata dict
    file_url,     \* download_file: the local url
    waits         \* download_file: the arguments of time.sleep, in order

gwVars == <<gw_env, gw_pc, gw_req, gw_remote, gw_resp, attempt, last_err, meta, file_url, waits>>

\* range(3) at line 314
MetaAttempts == 3

\* Tool names of a request to /api/tool_test
ToolNames ==
    { <<"list_my_courses">>, <<" ", "get_upcoming_assignments">>, <<"get_announcements", " ">>,
      <<"browse_course_files">>, <<>> }

KnownTools == { <<"list_my_courses">>, <<"get_upcoming_assignments">>, <<"get_announcements">> }

\* HTTP statuses of the platform
UpstreamStatuses == {200, 403, 404, 500}

\* One upstream request: its target, the status answered (0: no answer, the
\* connection failed) and the exception class it ended with in the handler
Sent(target, status, exc) == [target |-> target, status |-> status, exc |-> exc]

NoMeta == [empty |-> TRUE, url |-> NoneStr]

\* JSON bodies of the metadata request: a file object with a url, one without,
\* and a body that is no dict
MetaBodies ==
    { [is_dict |-> TRUE, url |-> <<"u">>], [is_dict |-> TRUE, url |-> NoneStr],
      [is_dict |-> FALSE, url |-> NoneStr] }

\* line 319: meta = j if isinstance(j, dict) else {}
MetaOf(j) == IF j.is_dict THEN [empty |-> FALSE, url |-> j.url] ELSE NoMeta

\* The wait before the next attempt, the same after every failure
Backoff_constant(exc, k) == IF exc = "RequestException" THEN 4 ELSE 2

\* lines 324 and 327: 0.4 * 2 ** attempt and 0.2 * 2 ** attempt
Backoff(exc, k) == IF exc = "RequestException" THEN 4 * 2^k ELSE 2 * 2^k

GwRequest(endpoint, token, tool) == [endpoint |-> endpoint, token |-> token, tool |-> tool]

\* raise HTTPException(status_code=code) before the handler did anything else
GwReject(r, code) ==
    /\ gw_req' = r
    /\ gw_resp' = code
    /\ gw_pc' = "responded"
    /\ UNCHANGED <<gw_remote, attempt, last_err, meta, file_url, waits>>

\* The body of a handler that reads the platform through the client: the
\* request is sent; a failure status or a failed connection raises, and the
\* handler's except Exception answers 500
GwRun(r, status) ==
    /\ gw_req' = r
    /\ gw_remote' = Append(gw_remote,
                           Sent("platform", status, IF status = 200 THEN "None" ELSE "RequestException"))
    /\ gw_resp' = IF status = 200 THEN 200 ELSE 500
    /\ gw_pc' = "responded"
    /\ UNCHANGED <<attempt, last_err, meta, file_url, waits>>

\* POST /api/tool_test, lines 126-155
ToolTest ==
    /\ gw_pc = "idle"
    /\ \E req_token \in Tokens, tool \in ToolNames, status \in UpstreamStatuses \cup {0} :
          LET canvas_token == Strip(Or(req_token, <<>>))
              canvas_base_url == gw_env.CANVAS_BASE_URL
              tool_name == Strip(Or(tool, <<>>))
              r == GwRequest("tool_test", req_token, tool)
          IN  IF ~Truthy(canvas_token) THEN GwReject(r, 400)
              ELSE IF ~Truthy(canvas_base_url) THEN GwReject(r, 500)
              ELSE IF tool_name \in KnownTools THEN GwRun(r, status)
              ELSE GwReject(r, 400)
    /\ UNCHANGED gw_env

\* _extract_canvas_token_from_header without strip()
_extract_canvas_token_from_header_no_strip(hdr) == Or(hdr, <<>>)

\* _extract_canvas_token_from_header, lines 158-163: the token, or <<>> when
\* it raises the 400
_extract_canvas_token_from_header(hdr) == Strip(Or(hdr, <<>>))

\* list_courses without the check of CANVAS_BASE_URL
ListCourses_no_config_check ==
    /\ gw_pc = "idle"
    /\ \E hdr \in Tokens, status \in UpstreamStatuses \cup {0} :
          LET canvas_token == _extract_canvas_token_from_header(hdr)
              r == GwRequest("courses", hdr, <<>>)
          IN  IF ~Truthy(canvas_token) THEN GwReject(r, 400)
              ELSE GwRun(r, status)
    /\ UNCHANGED gw_env

\* GET /api/courses, lines 255-281
ListCourses ==
    /\ gw_pc = "idle"
    /\ \E hdr \in Tokens, status \in UpstreamStatuses \cup {0} :
          LET canvas_token == _extract_canvas_token_from_header(hdr)
              r == GwRequest("courses", hdr, <<>>)
          IN  IF ~Truthy(canvas_token) THEN GwReject(r, 400)
              ELSE IF ~Truthy(gw_env.CANVAS_BASE_URL) THEN GwReject(r, 500)
              ELSE GwRun(r, status)
    /\ UNCHANGED gw_env

\* GET /api/courses/{course_id}/file_tree, lines 285-298
GetCourseFileTree ==
    /\ gw_pc = "idle"
    /\ \E hdr \in Tokens, status \in UpstreamStatuses \cup {0} :
          LET canvas_token == _extract_canvas_token_from_header(hdr)
              r == GwRequest("file_tree", hdr, <<>>)
          IN  IF ~Truthy(canvas_token) THEN GwReject(r, 400)
              ELSE IF ~Truthy(gw_env.CANVAS_BASE_URL) THEN GwReject(r, 500)
              ELSE GwRun(r, status)
    /\ UNCHANGED gw_env

\* GET /api/files/{file_id}/download, lines 302-313: up to the retry loop
DownloadFile ==
    /\ gw_pc = "idle"
    /\ \E hdr \in Tokens :
          LET canvas_token == _extract_canvas_token_from_header(hdr)
              r == GwRequest("download", hdr, <<>>)
          IN  IF ~Truthy(canvas_token) THEN GwReject(r, 400)
              ELSE IF ~Truthy(gw_env.CANVAS_BASE_URL) THEN GwReject(r, 500)
              ELSE /\ gw_req' = r
                   /\ gw_pc' = "meta"
                   /\ UNCHANGED <<gw_remote, gw_resp, attempt, last_err, meta, file_url, waits>>
    /\ UNCHANGED gw_env

\* A failed attempt, lines 322-329: the error is kept, the handler sleeps,
\* and after the last attempt answers 502
MetaFailed(status, exc) ==
    /\ gw_remote' = Append(gw_remote, Sent("meta", status, exc))
    /\ last_err' = exc
    /\ waits' = Append(waits, Backoff(exc, attempt))
    /\ attempt' = attempt + 1
    /\ IF attempt + 1 < MetaAttempts
       THEN UNCHANGED <<gw_pc, gw_resp>>
       ELSE gw_pc' = "responded" /\ gw_resp' = 502
    /\ UNCHANGED <<meta, file_url>>

\* One turn of the loop of lines 314-327.  A body that is no JSON raises an
\* exception that is a RequestException or not, by the version of requests.
MetaAttempt ==
    /\ gw_pc = "meta"
    /\ attempt < MetaAttempts
    /\ \/ MetaFailed(0, "RequestException")
       \/ \E status \in UpstreamStatuses \ {200} : MetaFailed(status, "RequestException")
       \/ \E exc \in {"RequestException", "Exception"} : MetaFailed(200, exc)
       \/ \E j \in MetaBodies :
            /\ gw_remote' = Append(gw_remote, Sent("meta", 200, "None"))
            /\ meta' = MetaOf(j)
            /\ last_err' = "None"
            /\ file_url' = MetaOf(j).url
            /\ gw_pc' = IF Truthy(MetaOf(j).url) THEN "bytes" ELSE "public_url"
            /\ UNCHANGED <<gw_resp, attempt, waits>>
    /\ UNCHANGED <<gw_env, gw_req>>

\* lines 333-342: the public_url endpoint when the file object has no url
PublicUrl ==
    /\ gw_pc = "public_url"
    /\ \/ \E public_url \in {NoneStr, <<"p">>} :
            /\ gw_remote' = Append(gw_remote, Sent("public_url", 200, "None"))
            /\ file_url' = Or(public_url, file_url)
            /\ IF Truthy(Or(public_url, file_url))
               THEN gw_pc' = "bytes" /\ UNCHANGED gw_resp
               ELSE gw_pc' = "responded" /\ gw_resp' = 404
       \/ \E status \in (UpstreamStatuses \ {200}) \cup {0} :
            /\ gw_remote' = Append(gw_remote, Sent("public_url", status, "RequestException"))
            /\ gw_pc' = "responded" /\ gw_resp' = 404
            /\ UNCHANGED file_url
    /\ UNCHANGED <<gw_env, gw_req, attempt, last_err, meta, waits>>

\* lines 345-369: the request of the file bytes and the answer
DownloadBytes ==
    /\ gw_pc = "bytes"
    /\ \E status \in UpstreamStatuses \cup {0} :
          /\ gw_remote' = Append(gw_remote,
                                 Sent("bytes", status, IF status = 0 THEN "RequestException" ELSE "None"))
          /\ gw_resp' = IF status = 0 THEN 500 ELSE status
    /\ gw_pc' = "responded"
    /\ UNCHANGED <<gw_env, gw_req, attempt, last_err, meta, file_url, waits>>

GwIdle ==
    /\ gw_req = GwRequest("none", NoneStr, <<>>)
    /\ gw_remote = <<>>
    /\ gw_resp = 0
    /\ attempt = 0
    /\ last_err = "None"
    /\ meta = NoMeta
    /\ file_url = NoneStr
    /\ waits = <<>>

GwInit ==
    /\ gw_env \in [CANVAS_BASE_URL : ConfigValues]
    /\ gw_pc = "idle"
    /\ GwIdle

GwOff ==
    /\ gw_env = [CANVAS_BASE_URL |-> NoneStr]
    /\ gw_pc = "off"
    /\ GwIdle

(***************************************************************************)
(* Claims about download_file                                              *)
(***************************************************************************)
\* The metadata requests sent so far, and the failed ones
MetaSent == SelectSeq(gw_remote, LAMBDA s : s.target = "meta")
FailedMeta == SelectSeq(MetaSent, LAMBDA s : s.exc # "None")

\* What C12 says of the attempts: at most 3, a success is the last one, one
\* wait per failure, and 502 without a further request after 3 failures
BoundedRetry ==
    /\ Len(MetaSent) <= 3
    /\ \A i \in DOMAIN MetaSent : MetaSent[i].exc = "None" => i = Len(MetaSent)
    /\ Len(waits) = Len(FailedMeta)
    /\ Len(FailedMeta) = 3 =>
          /\ gw_pc = "responded"
          /\ gw_resp = 502
          /\ \A i \in DOMAIN gw_remote : gw_remote[i].target = "meta"

\* C12 as stated: the metadata request is attempted at most 3 times, the
\* first success ends the retrying, every failed attempt is followed by a
\* longer wait than the previous one, and 3 failures give 502 without a
\* request of the file bytes.
C12_AsStated ==
    gw_req.endpoint = "download" =>
        /\ BoundedRetry
        /\ \A i \in 2..Len(waits) : waits[i] > waits[i - 1]

\* C12 amended: as above, where the wait after the k-th failed attempt
\* (k = 0, 1, 2) is 0.4 * 2^k seconds after a requests exception and
\* 0.2 * 2^k seconds after any other exception: a wait is never shorter
\* than the previous one, and longer when both failures are of one kind.
C12_BoundedRetryBackoff ==
    gw_req.endpoint = "download" =>
        /\ BoundedRetry
        /\ \A i \in DOMAIN waits :
              waits[i] = (IF FailedMeta[i].exc = "RequestException" THEN 4 ELSE 2) * 2^(i - 1)
        /\ \A i \in 2..Len(waits) :
              /\ waits[i] >= waits[i - 1]
              /\ FailedMeta[i].exc = FailedMeta[i - 1].exc => waits[i] > waits[i - 1]

\* C12 witness: three attempts failed on the transport, the handler waited
\* 0.4, 0.8 and 1.6 seconds and answered 502
C12_Witness ==
    /\ gw_req.endpoint = "download"
    /\ Len(FailedMeta) = 3
    /\ waits = <<4, 8, 16>>
    /\ gw_resp = 502
    /\ Len(gw_remote) = 3

\* C13: when the platform answers a request of the download endpoint with a
\* status >= 400, the endpoint answers its caller with that status.
C13_UpstreamStatusPropagated ==
    (gw_req.endpoint = "download" /\ gw_pc = "responded") =>
        \A i \in DOMAIN gw_remote :
            gw_remote[i].status >= 400 => gw_resp = gw_remote[i].status

(***************************************************************************)
(* Claims about configuration errors and client input errors               *)
(***************************************************************************)
\* /api/chat has answered, run_agent called directly has ended, one of the
\* other endpoints has answered
ChatAnswered == caller = "chat" /\ pc = "responded"
DirectEnded == caller = "direct" /\ outcome # NoOutcome
GwAnswered == gw_pc = "responded"

\* The configuration the request needs is missing
ChatConfigMissing ==
    \/ ~Truthy(request.llm_api_key)
    \/ ~Truthy(request.llm_base_url)
    \/ ~Truthy(env.CANVAS_BASE_URL)

DirectConfigMissing ==
    \/ ~Truthy(IF Truthy(request.llm_api_key) THEN request.llm_api_key ELSE env.LLM_API_KEY)
    \/ ~Truthy(IF Truthy(request.llm_base_url) THEN request.llm_base_url ELSE env.LLM_BASE_URL)
    \/ ~Truthy(env.CANVAS_BASE_URL)

GwConfigMissing == ~Truthy(gw_env.CANVAS_BASE_URL)

\* Client input errors
NotBlank(s) == s # NoneStr /\ \E i \in DOMAIN s : s[i] \notin Whitespace
ChatInputError == request.user_message = <<>> \/ ~NotBlank(request.canvas_token)
GwCredentialError == ~NotBlank(gw_req.token)
UnknownTool ==
    /\ gw_req.endpoint = "tool_test"
    /\ \A i \in DOMAIN gw_req.tool :
          gw_req.tool[i] \notin {"list_my_courses", "get_upcoming_assignments", "get_announcements"}

\* Nothing was sent to the LLM or to the learning platform
NothingSent == calls = <<>> /\ gw_remote = <<>>

\* C14 as stated: a request with missing configuration is failed with a
\* server-class error (500, never a 4xx; RuntimeError from run_agent) before
\* anything is sent to the learning platform or to the LLM.
C14_AsStated ==
    /\ (ChatAnswered /\ ChatConfigMissing) => (response.status = 500 /\ NothingSent)
    /\ (DirectEnded /\ DirectConfigMissing) => (outcome = Raised("RuntimeError") /\ NothingSent)
    /\ (GwAnswered /\ GwConfigMissing) => (gw_resp = 500 /\ NothingSent)

\* C14 amended: a request that carries its message and a non-blank
\* credential and lacks configuration is failed with 500 (RuntimeError from
\* run_agent) before anything is sent, whatever its tool name; a request
\* that also lacks the message or the credential is answered 400.
C14_ConfigErrorFailsFast ==
    /\ (ChatAnswered /\ ChatConfigMissing) =>
          /\ response.status = (IF ChatInputError THEN 400 ELSE 500)
          /\ NothingSent
    /\ (DirectEnded /\ DirectConfigMissing) => (outcome = Raised("RuntimeError") /\ NothingSent)
    /\ (GwAnswered /\ GwConfigMissing) =>
          /\ gw_resp = (IF GwCredentialError THEN 400 ELSE 500)
          /\ NothingSent

\* C14 witness: /api/tool_test with a credential, an unknown tool name and
\* no CANVAS_BASE_URL answers 500 and sends nothing
C14_Witness ==
    /\ GwAnswered /\ GwConfigMissing
    /\ ~GwCredentialError /\ UnknownTool
    /\ gw_resp = 500
    /\ NothingSent

\* C15 as stated: a request with a client input error (empty message on
\* /chat, missing or blank credential on any endpoint, unknown tool name on
\* /tool_test) is answered 400 and nothing is sent to the learning platform
\* or to the LLM.
C15_AsStated ==
    /\ (ChatAnswered /\ ChatInputError) => (response.status = 400 /\ NothingSent)
    /\ (GwAnswered /\ (GwCredentialError \/ UnknownTool)) => (gw_resp = 400 /\ NothingSent)

\* C15 amended: an empty message on /chat and a missing or blank credential
\* on any endpoint are answered 400; an unknown tool name on /tool_test with
\* a credential is answered 400 when CANVAS_BASE_URL is configured and 500
\* when it is not; in every case nothing is sent.
C15_InputErrorRejected ==
    /\ (ChatAnswered /\ ChatInputError) => (response.status = 400 /\ NothingSent)
    /\ (GwAnswered /\ GwCredentialError) => (gw_resp = 400 /\ NothingSent)
    /\ (GwAnswered /\ UnknownTool /\ ~GwCredentialError) =>
          /\ gw_resp = (IF GwConfigMissing THEN 500 ELSE 400)
          /\ NothingSent

\* C15 witness: the download endpoint with a blank credential and no
\* CANVAS_BASE_URL answers 400 and sends nothing
C15_Witness ==
    /\ GwAnswered
    /\ gw_req.endpoint = "download"
    /\ gw_req.token = <<" ">>
    /\ GwConfigMissing
    /\ gw_resp = 400
    /\ NothingSent

(***************************************************************************)
(* main.py: _build_course_file_tree on listings of any shape               *)
(***************************************************************************)
\* Folders of the requested course: a root, a second top-level folder,
\* children with names equal up to case, a dangling parent id (9), a cycle
\* of parents (2 and 3) and a folder that is its own parent
ShapeFolder(id, name, parent) ==
    Folder(id, name, name, parent, <<"c", "o", "u", "r", "s", "e">>, RequestedCourse, FALSE)

ShapeCatalogue ==
    { ShapeFolder(1, <<"C", "o", "u", "r", "s", "e", " ", "F", "i", "l", "e", "s">>, NoneInt),
      ShapeFolder(2, <<"m", "i", "s", "c">>, 1), ShapeFolder(2, <<"l", "o", "o", "p">>, 3), ShapeFolder(2, <<"T", "o", "p">>, NoneInt),
      ShapeFolder(3, <<"A", "L", "P", "H", "A">>, 1), ShapeFolder(3, <<"p", "o", "o", "l">>, 2), ShapeFolder(3, <<"B", "e", "t", "a">>, 9),
      ShapeFolder(4, <<"a", "l", "p", "h", "a">>, 1), ShapeFolder(4, <<"s", "e", "l", "f">>, 4), ShapeFolder(4, <<"d", "e", "e", "p">>, 3) }

ShapeFiles == FileCatalogue \cup { File(5, <<"B", ".", "T", "X", "T">>, <<"B", ".", "T", "X", "T">>, 1) }

TreeShapeInit ==
    /\ folders \in {fs \in SeqsUpTo(ShapeCatalogue, MaxFolders) : DistinctIds(fs)}
    /\ files \in {fl \in SeqsUpTo(ShapeFiles, MaxFiles) : DistinctIds(fl)}
    /\ tree_state = "called"
    /\ tree = NoTree

(***************************************************************************)
(* Claims about the shape of the course file tree                          *)
(***************************************************************************)
\* The folder nodes of a tree
RECURSIVE Nodes(_)
Nodes(node) == {node} \cup UNION {Nodes(node.folders[i]) : i \in DOMAIN node.folders}

\* The ids of the folder nodes of a tree, one entry per node
RECURSIVE IdList(_)
IdList(node) ==
    LET RECURSIVE Flat(_)
        Flat(k) == IF k = 0 THEN <<>> ELSE Flat(k - 1) \o IdList(node.folders[k])
    IN  <<node.id>> \o Flat(Len(node.folders))

\* Ascending order of two sibling folder nodes, of two files of a node
NodeBefore(a, b) ==
    \/ StrLess(Lower(a.name), Lower(b.name))
    \/ Lower(a.name) = Lower(b.name) /\ a.id < b.id

FileBefore(a, b) ==
    \/ StrLess(Lower(a.display_name), Lower(b.display_name))
    \/ Lower(a.display_name) = Lower(b.display_name) /\ a.id < b.id

\* C16: in every folder node of the tree returned the child folders are in
\* ascending order of (lower-cased name, id) and the files in ascending
\* order of (lower-cased display name, id), whatever the order of the
\* listings.
C16_SortedEverywhere ==
    tree_state = "returned" =>
        \A n \in Nodes(tree) :
            /\ \A i \in 1..(Len(n.folders) - 1) : NodeBefore(n.folders[i], n.folders[i + 1])
            /\ \A i \in 1..(Len(n.files) - 1) : FileBefore(n.files[i], n.files[i + 1])

\* C16 witness: folders 4 "alpha" and 3 "ALPHA" and files 7 "b.txt" and
\* 5 "B.TXT" of the root are listed in that order and returned by id
C16_Witness ==
    /\ tree_state = "returned"
    /\ Len(folders) = 3 /\ folders[1].id = 4 /\ folders[2].id = 3 /\ folders[3].id = 1
    /\ Len(files) = 2 /\ files[1].id = 7 /\ files[2].id = 5
    /\ tree.id = 1
    /\ Len(tree.folders) = 2 /\ tree.folders[1].id = 3 /\ tree.folders[2].id = 4
    /\ Len(tree.files) = 2 /\ tree.files[1].id = 5 /\ tree.files[2].id = 7

\* The ids of the listed folders reachable from the ids of S through
\* parent_folder_id links
RECURSIVE ReachFrom(_)
ReachFrom(S) ==
    LET more == S \cup {folders[i].id : i \in {j \in DOMAIN folders :
                            /\ folders[j].id # NoneInt
                            /\ folders[j].parent_folder_id \in S}}
    IN  IF more = S THEN S ELSE ReachFrom(more)

\* C19: for a listing with distinct folder ids (several top-level folders,
\* dangling parents and parent cycles included) the call returns one root;
\* every folder id occurs at most once in the tree; the folders present are
\* exactly those reachable from the chosen root through parent_folder_id;
\* the files of a node are exactly the listed files of that folder, so no
\* file of a folder that is not in the tree appears.
C19_TreeOfReachable ==
    tree_state = "returned" =>
        LET ids == IdList(tree)
        IN  /\ \A i, j \in DOMAIN ids : i # j => ids[i] # ids[j]
            /\ tree.id # NoneInt => Range(ids) = ReachFrom({tree.id})
            /\ tree.id = NoneInt => tree.folders = <<>> /\ tree.files = <<>>
            /\ \A n \in Nodes(tree) :
                  /\ \A k \in DOMAIN n.files :
                        \E i \in DOMAIN files :
                            files[i].id = n.files[k].id /\ files[i].folder_id = n.id
                  /\ \A i \in DOMAIN files :
                        (n.id # NoneInt /\ files[i].folder_id = n.id) =>
                            \E k \in DOMAIN n.files : n.files[k].id = files[i].id

\* C19 witness: folders 2 and 3 are each other's parent and folder 1 is the
\* root; the tree is folder 1 alone, and file 9 of folder 2 is left out
C19_Witness ==
    /\ tree_state = "returned"
    /\ \E i, j \in DOMAIN folders :
          /\ folders[i].id = 2 /\ folders[i].parent_folder_id = 3
          /\ folders[j].id = 3 /\ folders[j].parent_folder_id = 2
    /\ \E i \in DOMAIN files : files[i].id = 9
    /\ tree.id = 1
    /\ tree.folders = <<>>
    /\ tree.files = <<>>

(***************************************************************************)
(* canvas_tools.py: get_announcements_func                                 *)
(*                                                                         *)
(* Timestamps are the due_at values of the assignments: null, malformed,   *)
(* or an instant written with "Z" or with an offset.                       *)
(***************************************************************************)
VARIABLES
    an_courses,   \* the active courses paginate("/courses") yields
    an_name,      \* the argument course_name
    an_data,      \* the JSON list GET /announcements answers with
    an_state,     \* "off", "called", "returned", "raised"
    an_codes,     \* the course ids of the context codes sent
    ann_list,     \* the local ann_list after the sort of line 247
    an_out        \* the text returned: a message, or the lines

annVars == <<an_courses, an_name, an_data, an_state, an_codes, ann_list, an_out>>

\* Announcements the platform returns in the model
MaxAnnouncements == 3

\* datetime.fromtimestamp(0, tz=timezone.utc), line 245
Epoch == 0

Announcement(title, created_at, posted_at) ==
    [title |-> title, created_at |-> created_at, posted_at |-> posted_at]

AnnouncementCatalogue ==
    { Announcement(<<"a", "1">>, DueAt("z", 10, 0), DueAt("null", 0, 0)),
      Announcement(<<"a", "2">>, DueAt("z", 11, 0), DueAt("z", 10, 0)),
      Announcement(<<"a", "3">>, DueAt("offset", 13, 1), DueAt("null", 0, 0)),
      Announcement(<<"a", "4">>, DueAt("null", 0, 0), DueAt("z", 11, 0)),
      Announcement(NoneStr, DueAt("bad", 0, 0), DueAt("null", 0, 0)),
      Announcement(<<"a", "6">>, DueAt("null", 0, 0), DueAt("bad", 0, 0)) }

\* lines 237-245: the pair appended to ann_list
AnnItem(a) ==
    LET created == IF _parse_iso(a.created_at) # NoneInt THEN _parse_iso(a.created_at)
                   ELSE _parse_iso(a.posted_at)
    IN  [created |-> IF created # NoneInt THEN created ELSE Epoch,
         line |-> [title |-> Or(a.title, <<"u", "n", "t", "i", "t", "l", "e", "d">>),
                   date_text |-> _format_time(created)]]

\* A stable sort by created that puts the oldest first
RECURSIVE SortByCreated_ascending(_)
SortByCreated_ascending(items) ==
    IF items = <<>> THEN <<>>
    ELSE LET sorted == SortByCreated_ascending(SubSeq(items, 1, Len(items) - 1))
             x == items[Len(items)]
             k == Cardinality({i \in DOMAIN sorted : sorted[i].created <= x.created})
         IN  SubSeq(sorted, 1, k) \o <<x>> \o SubSeq(sorted, k + 1, Len(sorted))

\* line 247: ann_list.sort(key=lambda x: x[0], reverse=True), a stable sort
RECURSIVE SortByCreated(_)
SortByCreated(items) ==
    IF items = <<>> THEN <<>>
    ELSE LET sorted == SortByCreated(SubSeq(items, 1, Len(items) - 1))
             x == items[Len(items)]
             k == Cardinality({i \in DOMAIN sorted : sorted[i].created >= x.created})
         IN  SubSeq(sorted, 1, k) \o <<x>> \o SubSeq(sorted, k + 1, Len(sorted))

\* line 219: the ids of the active courses that have one
ActiveIds(cs) == Cids(CourseItems(cs))

AnnMessage(text) == [message |-> text, lines |-> <<>>]

\* One call of get_announcements_func(client, course_name), lines 210-248.
\* The request of the announcements is answered with a failure status, with
\* a body that is no list, or with the list an_data.
GetAnnouncements ==
    /\ an_state = "called"
    /\ LET ids == IF Truthy(an_name) THEN _find_course_ids_by_hint(an_courses, an_name)
                  ELSE ActiveIds(an_courses)
       IN  IF Truthy(an_name) /\ ids = <<>>
           THEN /\ an_out' = AnnMessage(<<"n", "o", " ", "m", "a", "t", "c", "h", "i", "n", "g", " ", "c", "o", "u", "r", "s", "e", ":", " ">> \o an_name)
                /\ an_state' = "returned"
                /\ UNCHANGED <<an_codes, ann_list>>
           ELSE /\ an_codes' = ids
                /\ \/ /\ an_state' = "raised"
                      /\ UNCHANGED <<ann_list, an_out>>
                   \/ \E is_list \in BOOLEAN :
                        LET data == IF is_list THEN an_data ELSE <<>>
                            sorted == SortByCreated([i \in DOMAIN data |-> AnnItem(data[i])])
                        IN  /\ an_state' = "returned"
                            /\ IF data = <<>>
                               THEN /\ an_out' = AnnMessage(<<"n", "o", " ", "a", "n", "n", "o", "u", "n", "c", "e", "m", "e", "n", "t", " ", "f", "o", "u", "n", "d">>)
                                    /\ UNCHANGED ann_list
                               ELSE /\ ann_list' = sorted
                                    /\ an_out' = [message |-> <<>>,
                                                  lines |-> [i \in DOMAIN sorted |-> sorted[i].line]]
    /\ UNCHANGED <<an_courses, an_name, an_data>>

AnnouncementsInit ==
    /\ an_courses \in { <<>>, << Course(11, <<"D", "A", "T", "A", " ", "S", "C", "I">>, <<"S", "D", "S", "C", "5", "0", "0", "3">>, NoneStr),
                               Course(12, <<"C", "o", "m", "p", "i", "l", "e", "r", "s">>, <<"C", "O", "M", "P", "5", "0", "0", "3", "X">>, NoneStr) >> }
    /\ an_name \in {NoneStr, <<"d", "a", "t", "a">>, <<"z", "z", "z">>}
    /\ an_data \in SeqsUpTo(AnnouncementCatalogue, MaxAnnouncements)
    /\ an_state = "called"
    /\ an_codes = <<>>
    /\ ann_list = <<>>
    /\ an_out = AnnMessage(<<>>)

AnnouncementsOff ==
    /\ an_courses = <<>>
    /\ an_name = NoneStr
    /\ an_data = <<>>
    /\ an_state = "off"
    /\ an_codes = <<>>
    /\ ann_list = <<>>
    /\ an_out = AnnMessage(<<>>)

(***************************************************************************)
(* Claims about get_announcements_func                                     *)
(***************************************************************************)
\* The creation instant of an announcement: created_at, else posted_at; it
\* has none when neither is a timestamp
HasInstant(a) == Parses(a.created_at) \/ Parses(a.posted_at)
CreatedOf(a) ==
    IF Parses(a.created_at) THEN InstantOf(a.created_at) ELSE InstantOf(a.posted_at)

\* Title and instant of the announcement an output line stands for
Listed(i) == [title |-> ann_list[i].line.title, dated |-> ann_list[i].line.date_text # NoneInt,
              created |-> ann_list[i].created]
Given(a) == [title |-> (IF a.title = NoneStr THEN <<"u", "n", "t", "i", "t", "l", "e", "d">> ELSE a.title), dated |-> HasInstant(a),
             created |-> IF HasInstant(a) THEN CreatedOf(a) ELSE 0]

\* The call returned the lines of announcements
AnnLinesReturned == an_state = "returned" /\ an_out.lines # <<>>

\* C17: the announcements returned are listed once each, newest first (in
\* non-increasing order of creation instant), and one whose timestamps are
\* missing or unparseable comes after every announcement that has a
\* parseable timestamp.
C17_NewestFirst ==
    AnnLinesReturned =>
        /\ Len(ann_list) = Len(an_data)
        /\ \A x \in {Given(an_data[i]) : i \in DOMAIN an_data} :
              Cardinality({i \in DOMAIN an_data : Given(an_data[i]) = x})
                  = Cardinality({i \in DOMAIN ann_list : Listed(i) = x})
        /\ \A i, j \in DOMAIN ann_list :
              (i < j /\ Listed(i).dated /\ Listed(j).dated) =>
                  ann_list[i].created >= ann_list[j].created
        /\ \A i, j \in DOMAIN ann_list : (~Listed(i).dated /\ Listed(j).dated) => j < i
        /\ an_out.lines = [i \in DOMAIN ann_list |-> ann_list[i].line]

\* C17 witness: an announcement without a timestamp, one created at 10 and
\* one created at 12 come back in the order 12, 10, none
C17_Witness ==
    /\ AnnLinesReturned
    /\ Len(an_data) = 3
    /\ ~HasInstant(an_data[1])
    /\ HasInstant(an_data[2]) /\ CreatedOf(an_data[2]) = 10
    /\ HasInstant(an_data[3]) /\ CreatedOf(an_data[3]) = 12
    /\ ann_list[1].created = 12
    /\ ann_list[2].created = 10
    /\ ann_list[3].line.date_text = NoneInt

(***************************************************************************)
(* canvas_tools.py: list_my_courses_func                                   *)
(***************************************************************************)
VARIABLES
    lc_listing,   \* the active courses paginate("/courses") yields, unchanged
    lc_courses,   \* the local list courses at the end of the last call
    lc_outs       \* the texts returned by the calls so far, in order

listVars == <<lc_listing, lc_courses, lc_outs>>

\* Calls of list_my_courses_func on the same data
MaxCalls == 2

ListCatalogue == CourseCatalogue \cup { Course(18, <<"D", "A", "T", "A", " ", "S", "C", "I">>, NoneStr, NoneStr) }

\* The list courses still holding the tuples of the previous call
CoursesAtEntry_kept == lc_courses

\* line 97: courses = []
CoursesAtEntry == <<>>

\* lines 98-103: the tuples (name, id, code) of the records with id and name
RECURSIVE CourseTuples(_)
CourseTuples(cs) ==
    IF cs = <<>> THEN <<>>
    ELSE LET c == Head(cs)
         IN  (IF ~TruthyInt(c.id) \/ ~Truthy(c.name) THEN <<>>
              ELSE << [name |-> c.name, cid |-> c.id,
                       code |-> Or(Or(c.course_code, c.code), <<>>)] >>)
             \o CourseTuples(Tail(cs))

\* line 106: courses.sort(key=lambda x: x[0]), a stable sort by name
RECURSIVE SortByName(_)
SortByName(ts) ==
    IF ts = <<>> THEN <<>>
    ELSE LET sorted == SortByName(SubSeq(ts, 1, Len(ts) - 1))
             x == ts[Len(ts)]
             k == Cardinality({i \in DOMAIN sorted : ~StrLess(x.name, sorted[i].name)})
         IN  SubSeq(sorted, 1, k) \o <<x>> \o SubSeq(sorted, k + 1, Len(sorted))

\* lines 108-112: the line of a course, with its code when it has one
CourseLine(t) ==
    <<"c", "o", "u", "r", "s", "e", ":", " ">> \o t.name
        \o (IF t.code # <<>> THEN <<" ", "|", " ", "c", "o", "d", "e", ":", " ">> \o t.code ELSE <<>>)
        \o <<" ", "|", " ", "i", "d", ":", " ">> \o IntToStr(t.cid)

\* lines 104-113: the text returned, as its lines, or the sentinel
CoursesReport(sorted) ==
    IF sorted = <<>> THEN << <<"n", "o", " ", "a", "c", "t", "i", "v", "e", " ", "c", "o", "u", "r", "s", "e", " ", "f", "o", "u", "n", "d">> >>
    ELSE [i \in DOMAIN sorted |-> CourseLine(sorted[i])]

\* One call of list_my_courses_func(client)
ListMyCourses ==
    /\ Len(lc_outs) < MaxCalls
    /\ LET sorted == SortByName(CoursesAtEntry \o CourseTuples(lc_listing))
       IN  /\ lc_courses' = sorted
           /\ lc_outs' = Append(lc_outs, CoursesReport(sorted))
    /\ UNCHANGED lc_listing

ListInit ==
    /\ lc_listing \in SeqsUpTo(ListCatalogue, MaxCourses)
    /\ lc_courses = <<>>
    /\ lc_outs = <<>>

ListOff ==
    /\ lc_listing = <<>>
    /\ lc_courses = <<>>
    /\ lc_outs = <<>>

(***************************************************************************)
(* Claims about list_my_courses_func                                       *)
(***************************************************************************)
\* The listed records that are reported
Reported == {i \in DOMAIN lc_listing : lc_listing[i].id # NoneInt /\ lc_listing[i].name # NoneStr}

vars == <<agentVars, pageVars, hintVars, treeVars, upVars, browseVars, gwVars, annVars, listVars>>

Init == AgentInit /\ PaginateOff /\ HintOff /\ TreeOff /\ UpcomingOff /\ BrowseOff /\ GwOff /\ AnnouncementsOff /\ ListOff

Next ==
    \/ RunAgentDirect /\ UNCHANGED <<pageVars, hintVars, treeVars, upVars, browseVars, gwVars, annVars, listVars>>
    \/ Chat /\ UNCHANGED <<pageVars, hintVars, treeVars, upVars, browseVars, gwVars, annVars, listVars>>
    \/ PrimaryInvoke /\ UNCHANGED <<pageVars, hintVars, treeVars, upVars, browseVars, gwVars, annVars, listVars>>
    \/ PrimaryRun /\ UNCHANGED <<pageVars, hintVars, treeVars, upVars, browseVars, gwVars, annVars, listVars>>
    \/ CheckEmpty /\ UNCHANGED <<pageVars, hintVars, treeVars, upVars, browseVars, gwVars, annVars, listVars>>
    \/ FallbackInvoke /\ UNCHANGED <<pageVars, hintVars, treeVars, upVars, browseVars, gwVars, annVars, listVars>>
    \/ FallbackRun /\ UNCHANGED <<pageVars, hintVars, treeVars, upVars, browseVars, gwVars, annVars, listVars>>
    \/ RunAgentReturn /\ UNCHANGED <<pageVars, hintVars, treeVars, upVars, browseVars, gwVars, annVars, listVars>>

\* One request to /api/chat or one call of run_agent
Spec == Init /\ [][Next]_vars

InitPaginate == PaginateInit /\ AgentOff /\ HintOff /\ TreeOff /\ UpcomingOff /\ BrowseOff /\ GwOff /\ AnnouncementsOff /\ ListOff

NextPaginate ==
    \/ PaginatePage /\ UNCHANGED <<agentVars, hintVars, treeVars, upVars, browseVars, gwVars, annVars, listVars>>
    \/ PaginateEnd /\ UNCHANGED <<agentVars, hintVars, treeVars, upVars, browseVars, gwVars, annVars, listVars>>

\* One call of CanvasClient.paginate, read to the end
SpecPaginate == InitPaginate /\ [][NextPaginate]_vars

InitHint == HintInit /\ AgentOff /\ PaginateOff /\ TreeOff /\ UpcomingOff /\ BrowseOff /\ GwOff /\ AnnouncementsOff /\ ListOff

NextHint ==
    \/ FindCourseIdsByHint /\ UNCHANGED <<agentVars, pageVars, treeVars, upVars, browseVars, gwVars, annVars, listVars>>

\* One call of _find_course_ids_by_hint on the active courses
SpecHint == InitHint /\ [][NextHint]_vars

InitTree == TreeInit /\ AgentOff /\ PaginateOff /\ HintOff /\ UpcomingOff /\ BrowseOff /\ GwOff /\ AnnouncementsOff /\ ListOff

NextTree ==
    \/ BuildCourseFileTree /\ UNCHANGED <<agentVars, pageVars, hintVars, upVars, browseVars, gwVars, annVars, listVars>>

\* One call of _build_course_file_tree on the listings of a course
SpecTree == InitTree /\ [][NextTree]_vars

InitUpcoming == UpcomingInit /\ AgentOff /\ PaginateOff /\ HintOff /\ TreeOff /\ BrowseOff /\ GwOff /\ AnnouncementsOff /\ ListOff

NextUpcoming ==
    \/ GetUpcomingAssignments /\ UNCHANGED <<agentVars, pageVars, hintVars, treeVars, browseVars, gwVars, annVars, listVars>>

\* One call of get_upcoming_assignments_func
SpecUpcoming == InitUpcoming /\ [][NextUpcoming]_vars

InitBrowse == BrowseInit /\ AgentOff /\ PaginateOff /\ HintOff /\ TreeOff /\ UpcomingOff /\ GwOff /\ AnnouncementsOff /\ ListOff

NextBrowse ==
    \/ BrowseCourseFiles /\ UNCHANGED <<agentVars, pageVars, hintVars, treeVars, upVars, gwVars, annVars, listVars>>

\* One call of the tool browse_course_files
SpecBrowse == InitBrowse /\ [][NextBrowse]_vars

InitGateway == GwInit /\ AgentOff /\ PaginateOff /\ HintOff /\ TreeOff /\ UpcomingOff /\ BrowseOff /\ AnnouncementsOff /\ ListOff

NextGateway ==
    \/ ToolTest /\ UNCHANGED <<agentVars, pageVars, hintVars, treeVars, upVars, browseVars, annVars, listVars>>
    \/ ListCourses /\ UNCHANGED <<agentVars, pageVars, hintVars, treeVars, upVars, browseVars, annVars, listVars>>
    \/ GetCourseFileTree /\ UNCHANGED <<agentVars, pageVars, hintVars, treeVars, upVars, browseVars, annVars, listVars>>
    \/ DownloadFile /\ UNCHANGED <<agentVars, pageVars, hintVars, treeVars, upVars, browseVars, annVars, listVars>>
    \/ MetaAttempt /\ UNCHANGED <<agentVars, pageVars, hintVars, treeVars, upVars, browseVars, annVars, listVars>>
    \/ PublicUrl /\ UNCHANGED <<agentVars, pageVars, hintVars, treeVars, upVars, browseVars, annVars, listVars>>
    \/ DownloadBytes /\ UNCHANGED <<agentVars, pageVars, hintVars, treeVars, upVars, browseVars, annVars, listVars>>

\* One request to /api/tool_test, /api/courses, the file tree or the file download
SpecGateway == InitGateway /\ [][NextGateway]_vars

InitTreeShape == TreeShapeInit /\ AgentOff /\ PaginateOff /\ HintOff /\ UpcomingOff /\ BrowseOff /\ GwOff /\ AnnouncementsOff /\ ListOff

NextTreeShape ==
    \/ BuildCourseFileTree /\ UNCHANGED <<agentVars, pageVars, hintVars, upVars, browseVars, gwVars, annVars, listVars>>

\* One call of _build_course_file_tree on listings with equal names, dangling parents and parent cycles
SpecTreeShape == InitTreeShape /\ [][NextTreeShape]_vars

InitAnnouncements == AnnouncementsInit /\ AgentOff /\ PaginateOff /\ HintOff /\ TreeOff /\ UpcomingOff /\ BrowseOff /\ GwOff /\ ListOff

NextAnnouncements ==
    \/ GetAnnouncements /\ UNCHANGED <<agentVars, pageVars, hintVars, treeVars, upVars, browseVars, gwVars, listVars>>

\* One call of get_announcements_func
SpecAnnouncements == InitAnnouncements /\ [][NextAnnouncements]_vars

InitList == ListInit /\ AgentOff /\ PaginateOff /\ HintOff /\ TreeOff /\ UpcomingOff /\ BrowseOff /\ GwOff /\ AnnouncementsOff

NextList ==
    \/ ListMyCourses /\ UNCHANGED <<agentVars, pageVars, hintVars, treeVars, upVars, browseVars, gwVars, annVars>>

\* Calls of list_my_courses_func while the courses of the platform stay the same
SpecList == InitList /\ [][NextList]_vars

InitService == Init \/ InitGateway

NextService == Next \/ NextGateway

\* One request to any endpoint of the service, or one call of run_agent
SpecService == InitService /\ [][NextService]_vars

====
